---- MODULE Spec2Model ----
(***************************************************************************)
(* Event matching and pooled comparison of haimasree/EyeTrackingAlgroithms: *)
(* GazeEvents/EventMatching.py (the named matchers, generic_matching,      *)
(* _find_matches, _choose_match) over events that are labelled time        *)
(* intervals; Analysis/helpers.py (apply_on_column_pairs) and              *)
(* Analysis/Analyzers/BaseAnalyzer.py (group_and_aggregate,                *)
(* event_feature_statistical_comparison) over grids of measurement lists.  *)
(***************************************************************************)
EXTENDS Integers, Sequences, FiniteSets, TLC

\* ------------------------------------------------------------------ bounds
\* Largest timestamp of the events handed to _find_matches / generic_matching.
MaxTime == 2
\* Longest ground-truth sequence handed to generic_matching.
MaxGT == 2
\* Longest prediction sequence handed to _find_matches / generic_matching.
MaxPreds == 2
\* Largest timestamp of the events handed directly to _choose_match.
MaxCandTime == 3
\* Longest candidate list handed directly to _choose_match.
MaxCands == 3
\* Most rows of a grid handed to apply_on_column_pairs or to the statistical
\* comparison.
MaxRows == 2
\* Most rows of a grid handed to group_and_aggregate.
MaxGroupRows == 3
\* Labels in a sequence handed to a metric.
MaxSeqLen == 3
\* Samples handed to EventFactory.make_multiple.
MaxSamples == 4
\* Events (or matched pairs) in a cell handed to the feature extraction.
MaxCellEvents == 2
\* Gaze samples in the frame handed to detect_multiple_times, and iterations.
MaxGazeSamples == 3
MaxIterations == 2

VARIABLES
  ground_truth,          \* generic_matching: the ground-truth sequence
  predictions,           \* the prediction sequence
  allow_cross_matching,
  min_overlap, min_iou, max_onset_latency, max_offset_latency,
  reduction,             \* the reduction name as passed (a sequence of characters)
  idx,                   \* generic_matching: number of ground-truth events processed
  gt,                    \* the ground-truth event of the current call / iteration
  possible_matches,      \* result of _find_matches / the `matches` argument of _choose_match
  p,                     \* result of _choose_match
  matches,               \* generic_matching: the dict built so far
  called,                \* the named matcher that was called, with its arguments
  run,                   \* which call of the same caller this is (1 or 2)
  first_result,          \* the mapping the first of two identical calls returned
  data,                  \* apply_on_column_pairs / group_and_aggregate: the grid
  func,                  \* apply_on_column_pairs: the function applied to a pair
  is_symmetric,
  column_pairs,
  res,                   \* apply_on_column_pairs: the dict, then the DataFrame
  func_calls,            \* the invocations of func so far, in order
  group_by,
  grouped_vals,          \* what group_and_aggregate returns
  feature_df,            \* event_feature_statistical_comparison: its argument
  test_name,
  results,               \* event_feature_statistical_comparison: what it returns
  gt_seq,                \* metrics: the `gt` label sequence
  pred,                  \* metrics: the `pred` label sequence
  norm,                  \* transition_matrix_distance: the norm name
  do_normalization,      \* levenshtein_distance
  tm1, tm2,              \* transition_matrix_distance: the two matrices
  distance,              \* what the metric returns
  labels,                \* EventFactory.make_multiple: the label of every sample
  timestamps,            \* the timestamp of every sample (the parameter `t`)
  minimum_samples_in_event, \* cnfg.MINIMUM_SAMPLES_IN_EVENT, 0 where make has no such test
  chunk_idxs,            \* make_multiple: the runs of equal labels
  event_list,            \* make_multiple: what every call of make returned
  events_df,             \* _extract_event_features: the events of every rater
  matches_df,            \* __calc_matched_events_feature_impl: the matched pairs
  ignore_events,
  feature,               \* the name of the feature
  extracted,             \* the frame of the feature, as returned
  dataset,               \* detect_multiple_times: the frame of the caller
  data_copy,             \* the local `data` after line 27
  num_iterations,
  iteration,             \* the loop variable `i`
  iter_results,
  multi_detect,          \* the dict `results`, then the table returned
  pc

vars == <<ground_truth, predictions, allow_cross_matching, min_overlap, min_iou,
          max_onset_latency, max_offset_latency, reduction, idx, gt,
          possible_matches, p, matches, called, run, first_result,
          data, func, is_symmetric, column_pairs, res, func_calls, group_by,
          grouped_vals, feature_df, test_name, results,
          gt_seq, pred, norm, do_normalization, tm1, tm2, distance,
          labels, timestamps, minimum_samples_in_event, chunk_idxs, event_list,
          events_df, matches_df, ignore_events, feature, extracted,
          dataset, data_copy, num_iterations, iteration, iter_results,
          multi_detect, pc>>

\* The variables of the analysis helpers.
analysis_vars == <<data, func, is_symmetric, column_pairs, res, func_calls,
                   group_by, grouped_vals, feature_df, test_name, results>>

\* The variables of the metrics.
metrics_vars == <<gt_seq, pred, norm, do_normalization, tm1, tm2, distance>>

\* The variables of EventFactory.make_multiple.
factory_vars == <<labels, timestamps, minimum_samples_in_event, chunk_idxs,
                  event_list>>

\* The variables of the extraction of a feature.
extraction_vars == <<events_df, matches_df, ignore_events, feature, extracted>>

\* The variables of detect_multiple_times.
iteration_vars == <<dataset, data_copy, num_iterations, iteration, iter_results,
                    multi_detect>>

\* The variables of the functions after the matching and the analysis helpers.
pipeline_vars == <<metrics_vars, factory_vars, extraction_vars, iteration_vars>>

\* The variables of the matching functions, less the loop counter.
matching_vars == <<ground_truth, predictions, allow_cross_matching, min_overlap,
                   min_iou, max_onset_latency, max_offset_latency, reduction,
                   gt, possible_matches, p, matches, called, run, first_result>>

\* The variables of the matching functions and of the analysis helpers.
helper_vars == <<matching_vars, analysis_vars, idx>>

\* What a metric, EventFactory, the extraction of a feature and
\* detect_multiple_times leave alone among the later variables.
beside_metrics == <<factory_vars, extraction_vars, iteration_vars>>
beside_factory == <<metrics_vars, extraction_vars, iteration_vars>>
beside_extraction == <<metrics_vars, factory_vars, iteration_vars>>
beside_iteration == <<metrics_vars, factory_vars, extraction_vars>>

\* ------------------------------------------------------------------ numbers
\* A quotient n/d (d > 0) is the pair <<n, d>>; comparisons cross-multiply.
Rat(n) == <<n, 1>>
RatLess(a, b) == a[1] * b[2] < b[1] * a[2]
RatLeq(a, b) == a[1] * b[2] <= b[1] * a[2]

abs(x) == IF x < 0 THEN 0 - x ELSE x
min2(a, b) == IF a <= b THEN a ELSE b
max2(a, b) == IF a >= b THEN a ELSE b

\* ------------------------------------------------------------------ events
Labels == {"fixation", "saccade"}

\* An event: a labelled half-open interval [start_time, end_time).
EventsUpTo(T) ==
  { e \in [start_time : 0..T, end_time : 0..T, label : Labels] :
      e.start_time < e.end_time }

NoEvent == [start_time |-> 0, end_time |-> 0, label |-> "none"]

event_type(e) == e.label
duration(e) == e.end_time - e.start_time

\* Time shared by the two intervals, 0 when they are disjoint.
overlap_time(g, e) ==
  max2(0, min2(g.end_time, e.end_time) - max2(g.start_time, e.start_time))

\* Overlap over the time covered by either interval.
intersection_over_union(g, e) ==
  <<overlap_time(g, e), duration(g) + duration(e) - overlap_time(g, e)>>

Saccade(s, e) == [start_time |-> s, end_time |-> e, label |-> "saccade"]

\* The events of the worked example of onset_latency_matching: a ground-truth
\* saccade and two predicted saccades, on a longer time axis than MaxTime.
ExampleGroundTruth == <<Saccade(0, 10)>>
ExamplePredictions == <<Saccade(2, 8), Saccade(9, 20)>>

\* The latest timestamp of the worked example.
RECURSIVE LatestEnd(_)
LatestEnd(es) ==
  IF es = <<>> THEN 0 ELSE max2(Head(es).end_time, LatestEnd(Tail(es)))

\* float("inf") of the default thresholds: above every latency of the model.
PosInf ==
  MaxTime + MaxCandTime + LatestEnd(ExampleGroundTruth \o ExamplePredictions) + 1
\* -float("inf") of the default thresholds: below every overlap and IoU.
NegInf == 0 - PosInf

\* All lists of at most n elements of S.
ListsUpTo(S, n) == UNION { [1..k -> S] : k \in 0..n }

\* Lists in chronological order (by onset), as a prediction sequence and every
\* list filtered from it are; the events of such a list may overlap.
ChronologicalLists(S, n) ==
  { s \in ListsUpTo(S, n) :
      \A i \in 1..(Len(s) - 1) : s[i].start_time <= s[i + 1].start_time }

\* Event sequences as a detector emits them: ordered and non-overlapping.
EventSequences(T, n) ==
  { s \in ListsUpTo(EventsUpTo(T), n) :
      \A i \in 1..(Len(s) - 1) : s[i].end_time <= s[i + 1].start_time }

\* ------------------------------------------------------------------ names
\* A name is the sequence of its characters, so that lower(), replace() and
\* strip() are computed and not assumed.
UpperCase == <<"A","B","C","D","E","F","G","H","I","J","K","L","M",
               "N","O","P","Q","R","S","T","U","V","W","X","Y","Z">>
LowerCase == <<"a","b","c","d","e","f","g","h","i","j","k","l","m",
               "n","o","p","q","r","s","t","u","v","w","x","y","z">>

lower_char(c) ==
  IF \E i \in 1..26 : UpperCase[i] = c
  THEN LowerCase[CHOOSE i \in 1..26 : UpperCase[i] = c]
  ELSE c

\* str.lower()
lower(s) == [i \in 1..Len(s) |-> lower_char(s[i])]

\* str.replace(old, new) for single characters
replace(s, old, new) == [i \in 1..Len(s) |-> IF s[i] = old THEN new ELSE s[i]]

RECURSIVE lstrip(_)
lstrip(s) == IF s # <<>> /\ Head(s) = " " THEN lstrip(Tail(s)) ELSE s

RECURSIVE rstrip(_)
rstrip(s) ==
  IF s # <<>> /\ s[Len(s)] = " " THEN rstrip(SubSeq(s, 1, Len(s) - 1)) ELSE s

\* str.strip()
strip(s) == rstrip(lstrip(s))

\* reduction.lower().replace("_", " ").strip()
normalize(name) == strip(replace(lower(name), "_", " "))

\* The eight reduction names _choose_match compares against.
n_all == <<"a", "l", "l">>
n_first == <<"f", "i", "r", "s", "t">>
n_last == <<"l", "a", "s", "t">>
n_longest == <<"l", "o", "n", "g", "e", "s", "t">>
n_max_overlap == <<"m", "a", "x", " ", "o", "v", "e", "r", "l", "a", "p">>
n_iou == <<"i", "o", "u">>
n_onset_latency == <<"o", "n", "s", "e", "t", " ", "l", "a", "t", "e", "n", "c", "y">>
n_offset_latency == <<"o", "f", "f", "s", "e", "t", " ", "l", "a", "t", "e", "n", "c", "y">>

KnownReductions ==
  {n_all, n_first, n_last, n_longest, n_max_overlap, n_iou, n_onset_latency, n_offset_latency}

\* Spellings a caller may pass: "First", "max_overlap", " IOU ", and two names
\* that are no reduction: "median", "max-overlap".
r_First == <<"F", "i", "r", "s", "t">>
r_max_overlap == <<"m", "a", "x", "_", "o", "v", "e", "r", "l", "a", "p">>
r_IOU == <<" ", "I", "O", "U", " ">>
r_median == <<"m", "e", "d", "i", "a", "n">>
r_max_dash_overlap == <<"m", "a", "x", "-", "o", "v", "e", "r", "l", "a", "p">>

ReductionNames ==
  KnownReductions \cup {r_First, r_max_overlap, r_IOU, r_median, r_max_dash_overlap}

\* ------------------------------------------------------------------ _find_matches
\* Mutant: the restriction to g's event type is forgotten.
restrict_to_type_never(g, preds, cross) == preds

\* `if not allow_cross_matching:` keep the predictions of g's event type.
restrict_to_type(g, preds, cross) ==
  IF ~cross
  THEN SelectSeq(preds, LAMBDA q : event_type(q) = event_type(g))
  ELSE preds

\* Mutant: the offset-latency threshold is left out of the condition.
passes_thresholds_no_offset(g, q, mo, mi, onl, offl) ==
  /\ overlap_time(g, q) >= mo
  /\ RatLeq(mi, intersection_over_union(g, q))
  /\ abs(q.start_time - g.start_time) <= onl

\* Mutant: the overlap must exceed min_overlap instead of reaching it.
passes_thresholds_strict(g, q, mo, mi, onl, offl) ==
  /\ overlap_time(g, q) > mo
  /\ RatLeq(mi, intersection_over_union(g, q))
  /\ abs(q.start_time - g.start_time) <= onl
  /\ abs(q.end_time - g.end_time) <= offl

\* The condition of the second list comprehension: all four thresholds at once.
passes_thresholds(g, q, mo, mi, onl, offl) ==
  /\ overlap_time(g, q) >= mo
  /\ RatLeq(mi, intersection_over_union(g, q))
  /\ abs(q.start_time - g.start_time) <= onl
  /\ abs(q.end_time - g.end_time) <= offl

_find_matches(g, preds, cross, mo, mi, onl, offl) ==
  SelectSeq(restrict_to_type(g, preds, cross),
            LAMBDA q : passes_thresholds(g, q, mo, mi, onl, offl))

\* ------------------------------------------------------------------ _choose_match
\* min(iterable, key=...): the position of the first element whose key is not
\* above any other's (a later element replaces the best only when strictly less).
RECURSIVE min_scan(_, _, _)
min_scan(keys, i, best) ==
  IF i > Len(keys) THEN best
  ELSE min_scan(keys, i + 1, IF RatLess(keys[i], keys[best]) THEN i ELSE best)

py_min(keys) == min_scan(keys, 2, 1)

\* max(iterable, key=...): the position of the first element whose key is not
\* below any other's (a later element replaces the best only when strictly greater).
RECURSIVE max_scan(_, _, _)
max_scan(keys, i, best) ==
  IF i > Len(keys) THEN best
  ELSE max_scan(keys, i + 1, IF RatLess(keys[best], keys[i]) THEN i ELSE best)

\* Mutant: max keeps the last of the elements that tie on the greatest key.
RECURSIVE max_scan_last(_, _, _)
max_scan_last(keys, i, best) ==
  IF i > Len(keys) THEN best
  ELSE max_scan_last(keys, i + 1, IF RatLeq(keys[best], keys[i]) THEN i ELSE best)

py_max_last_tie(keys) == max_scan_last(keys, 2, 1)

py_max(keys) == max_scan(keys, 2, 1)

\* The key lambdas of the single-pick reductions.
key_first(g, e) == Rat(e.start_time)
key_last(g, e) == Rat(e.start_time)
\* Mutant: "longest" ranks the candidates by their end time.
key_longest_by_end(g, e) == Rat(e.end_time)
key_longest(g, e) == Rat(duration(e))
\* Mutant: "max overlap" ranks the candidates by their own duration.
key_max_overlap_by_duration(g, e) == Rat(duration(e))
key_max_overlap(g, e) == Rat(overlap_time(g, e))
key_iou(g, e) == intersection_over_union(g, e)
key_onset_latency(g, e) == Rat(abs(e.start_time - g.start_time))
key_offset_latency(g, e) == Rat(abs(e.end_time - g.end_time))

Returned(v) == [raised |-> FALSE, value |-> v]
Raised == [raised |-> TRUE, value |-> <<>>]

\* Mutant: the one-candidate case returns the empty list of the case above it.
single_match_empty(ms) == <<>>

\* `return [matches[0]]` of the one-candidate case.
single_match(ms) == <<ms[1]>>

\* Mutant: "all" returns the first candidate only.
all_matches_first_only(ms) == <<ms[1]>>

\* `return matches` of the reduction "all".
all_matches(ms) == ms

_choose_match(g, ms, red) ==
  LET r == normalize(red)
      n == Len(ms)
  IN  IF n = 0 THEN Returned(<<>>)
      ELSE IF n = 1 THEN Returned(single_match(ms))
      ELSE IF r = n_all THEN Returned(all_matches(ms))
      ELSE IF r = n_first
        THEN Returned(<<ms[py_min([i \in 1..n |-> key_first(g, ms[i])])]>>)
      ELSE IF r = n_last
        THEN Returned(<<ms[py_max([i \in 1..n |-> key_last(g, ms[i])])]>>)
      ELSE IF r = n_longest
        THEN Returned(<<ms[py_max([i \in 1..n |-> key_longest(g, ms[i])])]>>)
      ELSE IF r = n_max_overlap
        THEN Returned(<<ms[py_max([i \in 1..n |-> key_max_overlap(g, ms[i])])]>>)
      ELSE IF r = n_iou
        THEN Returned(<<ms[py_max([i \in 1..n |-> key_iou(g, ms[i])])]>>)
      ELSE IF r = n_onset_latency
        THEN Returned(<<ms[py_min([i \in 1..n |-> key_onset_latency(g, ms[i])])]>>)
      ELSE IF r = n_offset_latency
        THEN Returned(<<ms[py_min([i \in 1..n |-> key_offset_latency(g, ms[i])])]>>)
      ELSE Raised

\* ------------------------------------------------------------------ generic_matching
EmptyDict == [e \in {} |-> <<>>]

\* matches[gt] = p
dict_set(d, k, v) == [e \in (DOMAIN d) \cup {k} |-> IF e = k THEN v ELSE d[e]]

\* Mutant: the result is recorded without the `if len(p)` test.
record_match_always(d, g, chosen) == dict_set(d, g, chosen)

\* Mutant: a prediction that is already the match of an event is not given to
\* another one.
record_match_unused_only(d, g, chosen) ==
  IF /\ Len(chosen) # 0
     /\ \A e \in DOMAIN d : \A i \in 1..Len(d[e]) : \A j \in 1..Len(chosen) :
          d[e][i] # chosen[j]
  THEN dict_set(d, g, chosen)
  ELSE d

\* `if len(p): matches[gt] = p`
record_match(d, g, chosen) == IF Len(chosen) # 0 THEN dict_set(d, g, chosen) ELSE d

\* Mutant: the filtering comprehensions write into the list that was passed.
callers_predictions_filtered(preds, local) == local

\* `predictions = [p for p in predictions if ...]` binds a new list to the
\* parameter name of _find_matches: the list of the caller is the same after
\* the call as before it.
callers_predictions(preds, local) == preds

\* ------------------------------------------------------------------ grids
\* np.nan among the measurements; the measurements themselves are naturals.
NaN == 0 - 1
isnan(v) == v = NaN

\* Python's None, in a cell and as group_by.
None == <<>>

\* Column labels (raters / detectors) and index levels of the grids.
ColumnNames == <<"A", "B", "C">>
\* One more rater, for the grids whose cells are all measured.
WideColumnNames == ColumnNames \o <<"D">>
IndexNames == <<"trial", "stimulus">>
\* The values of the stimulus level, in sorted order.
Stimuli == <<"image", "video">>

Range(s) == { s[i] : i \in 1..Len(s) }
IndexOf(s, x) == CHOOSE i \in 1..Len(s) : s[i] = x

\* The list-valued cells of the model: what a (row, column) may hold, with
\* measurements v, v + 1 that no other cell of the grid holds.
CellKinds == {"empty", "nan", "one", "two", "mixed"}
Cell(kind, v) ==
  CASE kind = "empty" -> <<>>
    [] kind = "nan" -> <<NaN>>
    [] kind = "one" -> <<v>>
    [] kind = "two" -> <<v, v + 1>>
    [] kind = "mixed" -> <<v, NaN, v + 1>>

Measurement(i, j) == 2 * (Len(WideColumnNames) * i + j)

\* A DataFrame: row labels in order, the names of the index levels, column
\* labels in order, and the cell at [row label][column label].
DataFrame(rows, names, cols, cells) ==
  [index |-> rows, index_names |-> names, columns |-> cols, loc |-> cells]

NoFrame == DataFrame(<<>>, <<>>, <<>>, EmptyDict)

\* The grid with one row per (trial i, stims[i]), the columns cols and in cell
\* (i, j) a list of kind kinds[i][j].
GridOf(stims, cols, kinds) ==
  LET rows == [i \in 1..Len(stims) |-> <<i, stims[i]>>]
  IN  DataFrame(rows, IndexNames, cols,
                [k \in Range(rows) |->
                   [c \in Range(cols) |->
                      Cell(kinds[k[1]][IndexOf(cols, c)],
                           Measurement(k[1], IndexOf(cols, c)))]])

\* A dict that remembers the order in which its keys were first set.
EmptyODict == [keys |-> <<>>, at |-> EmptyDict]
odict_set(o, k, v) ==
  [keys |-> IF k \in DOMAIN o.at THEN o.keys ELSE Append(o.keys, k),
   at |-> dict_set(o.at, k, v)]


\* No analysis helper is running.
AnalysisIdle ==
  /\ data = NoFrame
  /\ func = "none"
  /\ is_symmetric = TRUE
  /\ column_pairs = <<>>
  /\ res = EmptyODict
  /\ func_calls = <<>>
  /\ group_by = None
  /\ grouped_vals = NoFrame
  /\ feature_df = NoFrame
  /\ test_name = <<>>
  /\ results = NoFrame

\* No named matcher: generic_matching or one of its helpers is called directly.
NoCall == [fn |-> "none"]

\* No matching function is running.
MatchingIdle ==
  /\ ground_truth = <<>>
  /\ predictions = <<>>
  /\ allow_cross_matching = TRUE
  /\ min_overlap = NegInf
  /\ min_iou = Rat(NegInf)
  /\ max_onset_latency = PosInf
  /\ max_offset_latency = PosInf
  /\ reduction = n_all
  /\ gt = NoEvent
  /\ possible_matches = <<>>
  /\ p = <<>>
  /\ matches = EmptyDict
  /\ called = NoCall
  /\ run = 1
  /\ first_result = EmptyDict

\* No metric has returned.
NoDistance == [kind |-> "none"]

\* No metric is being computed.
MetricsIdle ==
  /\ gt_seq = <<>>
  /\ pred = <<>>
  /\ norm = <<>>
  /\ do_normalization = TRUE
  /\ tm1 = <<>>
  /\ tm2 = <<>>
  /\ distance = NoDistance

\* EventFactory is not called.
FactoryIdle ==
  /\ labels = <<>>
  /\ timestamps = <<>>
  /\ minimum_samples_in_event = 0
  /\ chunk_idxs = <<>>
  /\ event_list = <<>>

\* No feature is being extracted.
ExtractionIdle ==
  /\ events_df = NoFrame
  /\ matches_df = NoFrame
  /\ ignore_events = {}
  /\ feature = <<>>
  /\ extracted = NoFrame

\* detect_multiple_times is not called.
IterationIdle ==
  /\ dataset = <<>>
  /\ data_copy = <<>>
  /\ num_iterations = 0
  /\ iteration = 0
  /\ iter_results = EmptyODict
  /\ multi_detect = EmptyODict

PipelineIdle ==
  /\ MetricsIdle
  /\ FactoryIdle
  /\ ExtractionIdle
  /\ IterationIdle

\* Threshold values a caller may bind; the first of each set is the default of
\* generic_matching, 0 is the default latency bound of the latency matchers.
MinOverlaps == {NegInf, 1}
MinIous == {Rat(NegInf), <<1, 2>>}
MaxOnsetLatencies == {PosInf, 0}
MaxOffsetLatencies == {PosInf, 0}

\* ---- Specification of _find_matches called on its own.
InitFind ==
  /\ gt \in EventsUpTo(MaxTime)
  /\ predictions \in ListsUpTo(EventsUpTo(MaxTime), MaxPreds)
  /\ allow_cross_matching \in BOOLEAN
  /\ min_overlap \in MinOverlaps
  /\ min_iou \in MinIous
  /\ max_onset_latency \in MaxOnsetLatencies
  /\ max_offset_latency \in MaxOffsetLatencies
  /\ reduction = n_all
  /\ ground_truth = <<>>
  /\ idx = 0
  /\ possible_matches = <<>>
  /\ p = <<>>
  /\ matches = EmptyDict
  /\ called = NoCall
  /\ run = 1
  /\ first_result = EmptyDict
  /\ AnalysisIdle
  /\ PipelineIdle
  /\ pc = "call_find"

FindMatches ==
  /\ pc = "call_find"
  /\ possible_matches' = _find_matches(gt, predictions, allow_cross_matching,
                                       min_overlap, min_iou,
                                       max_onset_latency, max_offset_latency)
  /\ pc' = "found"
  /\ UNCHANGED <<pipeline_vars, analysis_vars, called, run, first_result,
                 ground_truth, predictions, allow_cross_matching, min_overlap,
                 min_iou, max_onset_latency, max_offset_latency, reduction,
                 idx, gt, p, matches>>

NextFind == FindMatches

SpecFind == InitFind /\ [][NextFind]_vars

\* ---- Specification of _choose_match called on its own.
\* _choose_match never reads an event's label: all events here are fixations.
Fixations(T) == { e \in EventsUpTo(T) : e.label = "fixation" }

InitChoose ==
  /\ gt \in Fixations(MaxCandTime)
  /\ possible_matches \in ChronologicalLists(Fixations(MaxCandTime), MaxCands)
  /\ reduction \in ReductionNames
  /\ predictions = <<>>
  /\ allow_cross_matching = TRUE
  /\ min_overlap = NegInf
  /\ min_iou = Rat(NegInf)
  /\ max_onset_latency = PosInf
  /\ max_offset_latency = PosInf
  /\ ground_truth = <<>>
  /\ idx = 0
  /\ p = <<>>
  /\ matches = EmptyDict
  /\ called = NoCall
  /\ run = 1
  /\ first_result = EmptyDict
  /\ AnalysisIdle
  /\ PipelineIdle
  /\ pc = "call_choose"

ChooseMatch ==
  /\ pc = "call_choose"
  /\ LET r == _choose_match(gt, possible_matches, reduction)
     IN  /\ ~r.raised
         /\ p' = r.value
  /\ pc' = "chosen"
  /\ UNCHANGED <<pipeline_vars, analysis_vars, called, run, first_result,
                 ground_truth, predictions, allow_cross_matching, min_overlap,
                 min_iou, max_onset_latency, max_offset_latency, reduction,
                 idx, gt, possible_matches, matches>>

ChooseRaise ==
  /\ pc = "call_choose"
  /\ _choose_match(gt, possible_matches, reduction).raised
  /\ pc' = "not_implemented"
  /\ UNCHANGED <<pipeline_vars, analysis_vars, called, run, first_result,
                 ground_truth, predictions, allow_cross_matching, min_overlap,
                 min_iou, max_onset_latency, max_offset_latency, reduction,
                 idx, gt, possible_matches, p, matches>>

NextChoose == ChooseMatch \/ ChooseRaise

SpecChoose == InitChoose /\ [][NextChoose]_vars

\* ---- Specification of generic_matching.
\* The threshold bindings of the callers of generic_matching in the module:
\* none, min_overlap, min_iou, max_onset_latency, max_offset_latency, and the
\* window of both latencies.
ThresholdSettings ==
  { t \in [mo : MinOverlaps, mi : MinIous,
           onl : MaxOnsetLatencies, offl : MaxOffsetLatencies] :
      \/ Cardinality({t.mo # NegInf, t.mi # Rat(NegInf),
                      t.onl # PosInf, t.offl # PosInf} \cap {TRUE}) = 0
      \/ /\ t.mo = NegInf /\ t.mi = Rat(NegInf)
      \/ /\ t.mi = Rat(NegInf) /\ t.onl = PosInf /\ t.offl = PosInf
      \/ /\ t.mo = NegInf /\ t.onl = PosInf /\ t.offl = PosInf }

Init ==
  /\ ground_truth \in EventSequences(MaxTime, MaxGT)
  /\ predictions \in EventSequences(MaxTime, MaxPreds)
  /\ allow_cross_matching \in BOOLEAN
  /\ \E t \in ThresholdSettings :
       /\ min_overlap = t.mo
       /\ min_iou = t.mi
       /\ max_onset_latency = t.onl
       /\ max_offset_latency = t.offl
  /\ reduction \in ReductionNames
  /\ idx = 0
  /\ gt = NoEvent
  /\ possible_matches = <<>>
  /\ p = <<>>
  /\ matches = EmptyDict
  /\ called = NoCall
  /\ run = 1
  /\ first_result = EmptyDict
  /\ AnalysisIdle
  /\ PipelineIdle
  /\ pc = "loop"

\* One iteration of `for gt in ground_truth` that completes.
MatchNext ==
  /\ pc = "loop"
  /\ idx < Len(ground_truth)
  /\ LET g == ground_truth[idx + 1]
         pm == _find_matches(g, predictions, allow_cross_matching,
                             min_overlap, min_iou,
                             max_onset_latency, max_offset_latency)
         r == _choose_match(g, pm, reduction)
     IN  /\ ~r.raised
         /\ gt' = g
         /\ possible_matches' = pm
         /\ p' = r.value
         /\ matches' = record_match(matches, g, r.value)
         /\ predictions' = callers_predictions(predictions, pm)
  /\ idx' = idx + 1
  /\ UNCHANGED <<pipeline_vars, analysis_vars, called, run, first_result,
                 ground_truth, allow_cross_matching,
                 min_overlap, min_iou, max_onset_latency, max_offset_latency,
                 reduction, pc>>

\* One iteration in which _choose_match raises NotImplementedError: the
\* exception leaves generic_matching and no mapping is returned.
MatchRaise ==
  /\ pc = "loop"
  /\ idx < Len(ground_truth)
  /\ LET g == ground_truth[idx + 1]
         pm == _find_matches(g, predictions, allow_cross_matching,
                             min_overlap, min_iou,
                             max_onset_latency, max_offset_latency)
     IN  /\ _choose_match(g, pm, reduction).raised
         /\ gt' = g
         /\ possible_matches' = pm
         /\ predictions' = callers_predictions(predictions, pm)
  /\ pc' = "not_implemented"
  /\ UNCHANGED <<pipeline_vars, analysis_vars, called, run, first_result,
                 ground_truth, allow_cross_matching,
                 min_overlap, min_iou, max_onset_latency, max_offset_latency,
                 reduction, idx, p, matches>>

\* `return matches`
Return ==
  /\ pc = "loop"
  /\ idx = Len(ground_truth)
  /\ pc' = "done"
  /\ UNCHANGED <<pipeline_vars, analysis_vars, called, run, first_result,
                 ground_truth, predictions, allow_cross_matching, min_overlap,
                 min_iou, max_onset_latency, max_offset_latency, reduction,
                 idx, gt, possible_matches, p, matches>>

Next == MatchNext \/ MatchRaise \/ Return

Spec == Init /\ [][Next]_vars

\* ---- The named matchers: each binds some keyword arguments of
\* generic_matching and leaves the others at its defaults.
\* The signature of generic_matching with its defaults, as the bound arguments.
generic_matching(cross, mo, mi, onl, offl, red) ==
  [allow_cross_matching |-> cross, min_overlap |-> mo, min_iou |-> mi,
   max_onset_latency |-> onl, max_offset_latency |-> offl, reduction |-> red]

first_overlap_matching(mo, cross) ==
  generic_matching(cross, mo, Rat(NegInf), PosInf, PosInf, n_first)
last_overlap_matching(mo, cross) ==
  generic_matching(cross, mo, Rat(NegInf), PosInf, PosInf, n_last)
longest_overlap_matching(mo, cross) ==
  generic_matching(cross, mo, Rat(NegInf), PosInf, PosInf, n_longest)
max_overlap_matching(mo, cross) ==
  generic_matching(cross, mo, Rat(NegInf), PosInf, PosInf, n_max_overlap)
iou_matching(mi, cross) ==
  generic_matching(cross, NegInf, mi, PosInf, PosInf, n_iou)

\* Mutant: the latency bound of the caller is not handed on.
onset_latency_matching_unbounded(onl, cross) ==
  generic_matching(cross, NegInf, Rat(NegInf), PosInf, PosInf, n_onset_latency)

onset_latency_matching(onl, cross) ==
  generic_matching(cross, NegInf, Rat(NegInf), onl, PosInf, n_onset_latency)
offset_latency_matching(offl, cross) ==
  generic_matching(cross, NegInf, Rat(NegInf), PosInf, offl, n_offset_latency)
window_based_matching(onl, offl, cross, red) ==
  generic_matching(cross, NegInf, Rat(NegInf), onl, offl, red)

\* Argument values of the named matchers; the first of each set is the default.
OverlapArgs == {0, 1}
IouArgs == {Rat(0), <<1, 2>>}
LatencyArgs == {0, 1}
\* Reductions handed to window_based_matching: its default, the one that keeps
\* every candidate, and a name _choose_match does not know.
WindowReductions == {n_iou, n_all, r_median}

OverlapMatchers ==
  {"first_overlap_matching", "last_overlap_matching",
   "longest_overlap_matching", "max_overlap_matching"}

\* The calls of the named matchers: the function and its arguments.
NamedCalls ==
  [fn : OverlapMatchers, min_overlap : OverlapArgs,
   allow_cross_matching : BOOLEAN]
  \cup [fn : {"iou_matching"}, min_iou : IouArgs, allow_cross_matching : BOOLEAN]
  \cup [fn : {"onset_latency_matching"}, max_onset_latency : LatencyArgs,
        allow_cross_matching : BOOLEAN]
  \cup [fn : {"offset_latency_matching"}, max_offset_latency : LatencyArgs,
        allow_cross_matching : BOOLEAN]
  \cup [fn : {"window_based_matching"}, max_onset_latency : LatencyArgs,
        max_offset_latency : LatencyArgs, allow_cross_matching : BOOLEAN,
        reduction : WindowReductions]

\* onset_latency_matching(ground_truth, predictions, max_onset_latency=5)
ExampleCall ==
  [fn |-> "onset_latency_matching", max_onset_latency |-> 5,
   allow_cross_matching |-> TRUE]

\* The call of generic_matching that the named call c makes.
bound_arguments(c) ==
  CASE c.fn = "first_overlap_matching" ->
         first_overlap_matching(c.min_overlap, c.allow_cross_matching)
    [] c.fn = "last_overlap_matching" ->
         last_overlap_matching(c.min_overlap, c.allow_cross_matching)
    [] c.fn = "longest_overlap_matching" ->
         longest_overlap_matching(c.min_overlap, c.allow_cross_matching)
    [] c.fn = "max_overlap_matching" ->
         max_overlap_matching(c.min_overlap, c.allow_cross_matching)
    [] c.fn = "iou_matching" ->
         iou_matching(c.min_iou, c.allow_cross_matching)
    [] c.fn = "onset_latency_matching" ->
         onset_latency_matching(c.max_onset_latency, c.allow_cross_matching)
    [] c.fn = "offset_latency_matching" ->
         offset_latency_matching(c.max_offset_latency, c.allow_cross_matching)
    [] c.fn = "window_based_matching" ->
         window_based_matching(c.max_onset_latency, c.max_offset_latency,
                               c.allow_cross_matching, c.reduction)

\* A named matcher is called on two sequences; when it has returned, the caller
\* calls it once more with the same arguments.
InitCallers ==
  /\ called \in NamedCalls \cup {ExampleCall}
  /\ LET b == bound_arguments(called)
     IN  /\ allow_cross_matching = b.allow_cross_matching
         /\ min_overlap = b.min_overlap
         /\ min_iou = b.min_iou
         /\ max_onset_latency = b.max_onset_latency
         /\ max_offset_latency = b.max_offset_latency
         /\ reduction = b.reduction
  /\ \/ /\ called \in NamedCalls
        /\ ground_truth \in EventSequences(MaxTime, MaxGT)
        /\ predictions \in EventSequences(MaxTime, MaxPreds)
     \/ /\ called = ExampleCall
        /\ ground_truth = ExampleGroundTruth
        /\ predictions = ExamplePredictions
  /\ idx = 0
  /\ gt = NoEvent
  /\ possible_matches = <<>>
  /\ p = <<>>
  /\ matches = EmptyDict
  /\ run = 1
  /\ first_result = EmptyDict
  /\ AnalysisIdle
  /\ PipelineIdle
  /\ pc = "loop"

\* The second call: `matches = {}` starts from an empty dict again.
Rerun ==
  /\ pc = "done"
  /\ run = 1
  /\ run' = 2
  /\ first_result' = matches
  /\ matches' = EmptyDict
  /\ idx' = 0
  /\ gt' = NoEvent
  /\ possible_matches' = <<>>
  /\ p' = <<>>
  /\ pc' = "loop"
  /\ UNCHANGED <<pipeline_vars, analysis_vars, called, ground_truth,
                 predictions, allow_cross_matching,
                 min_overlap, min_iou, max_onset_latency, max_offset_latency,
                 reduction>>

NextCallers == MatchNext \/ MatchRaise \/ Return \/ Rerun

SpecCallers == InitCallers /\ [][NextCallers]_vars

\* ------------------------------------------------------------------ apply_on_column_pairs
\* Positions (i, j) of itertools.product(range(n), repeat=2), in its order.
PositionPairs(n) ==
  [k \in 1..(n * n) |-> <<((k - 1) \div n) + 1, ((k - 1) % n) + 1>>]

LabelPairs(cols, positions) ==
  [k \in 1..Len(positions) |-> <<cols[positions[k][1]], cols[positions[k][2]]>>]

\* Mutant: itertools.combinations_with_replacement.
combinations_with_replacement(cols) ==
  LabelPairs(cols, SelectSeq(PositionPairs(Len(cols)), LAMBDA q : q[1] <= q[2]))

\* itertools.combinations(cols, 2): the pairs of positions i < j, in
\* lexicographic order of the positions.
combinations(cols) ==
  LabelPairs(cols, SelectSeq(PositionPairs(Len(cols)), LAMBDA q : q[1] < q[2]))

\* itertools.product(cols, repeat=2)
product(cols) == LabelPairs(cols, PositionPairs(Len(cols)))

\* `[pair for pair in column_pairs if pair[0] != pair[1]]`
distinct_pairs(pairs) == SelectSeq(pairs, LAMBDA pair : pair[1] # pair[2])

\* Lines 18-22.
pairs_of(cols, symmetric) ==
  IF symmetric THEN combinations(cols) ELSE distinct_pairs(product(cols))

\* Mutant: only the emptiness of the list is tested.
skipped_only_if_empty(vals) == Len(vals) = 0

\* `len(vals) == 0 or pd.isnull(vals).all()`
skipped(vals) == Len(vals) = 0 \/ \A i \in 1..Len(vals) : isnan(vals[i])

\* The value func returns: opaque, a pair (as the two-sample tests return a
\* statistic and a p-value) that records the function and its two arguments.
result_of(f, vals1, vals2) ==
  <<<<f, "statistic", vals1, vals2>>, <<f, "pvalue", vals1, vals2>>>>

\* `func(vals1, vals2)`
call_func(f, vals1, vals2) == result_of(f, vals1, vals2)

\* Lines 27-33: the cell of one row and one pair.
pair_cell(f, vals1, vals2) ==
  IF skipped(vals1) THEN None
  ELSE IF skipped(vals2) THEN None
  ELSE call_func(f, vals1, vals2)

\* Lines 25-33: the dict of one row, filled pair by pair.
RECURSIVE row_cells(_, _, _, _, _)
row_cells(d, f, key, pairs, acc) ==
  IF pairs = <<>> THEN acc
  ELSE LET pair == Head(pairs)
       IN  row_cells(d, f, key, Tail(pairs),
                     odict_set(acc, pair,
                               pair_cell(f, d.loc[key][pair[1]],
                                         d.loc[key][pair[2]])))

\* The invocations of func while one row is filled, in order.
RECURSIVE row_calls(_, _, _)
row_calls(d, key, pairs) ==
  IF pairs = <<>> THEN <<>>
  ELSE LET pair == Head(pairs)
           vals1 == d.loc[key][pair[1]]
           vals2 == d.loc[key][pair[2]]
           rest == row_calls(d, key, Tail(pairs))
       IN  IF skipped(vals1) \/ skipped(vals2) THEN rest
           ELSE <<[row |-> key, pair |-> pair,
                   vals1 |-> vals1, vals2 |-> vals2]>> \o rest

\* The name of an index level that was given no name.
Unnamed == "None"

\* pd.DataFrame.from_dict(res, orient="index"): the nested dict is turned
\* inside out, into one dict per column (a key of the row dicts, in order of
\* first appearance; every row dict here has the same keys in the same order),
\* and the rows of the frame are the keys found in those.  Without any column
\* no row is left, and the empty frame has a plain index of one level.
from_dict(o) ==
  LET cols == IF o.keys = <<>> THEN <<>> ELSE o.at[o.keys[1]].keys
      rows == IF cols = <<>> THEN <<>> ELSE o.keys
      nlevels == IF rows = <<>> THEN 1 ELSE Len(rows[1])
  IN  DataFrame(rows, [i \in 1..nlevels |-> Unnamed], cols,
                [k \in Range(rows) |-> o.at[k].at])

\* `res.index.names = data.index.names` raises ValueError unless it is given
\* one name per level of the index.
names_fit(frame, names) == Len(names) = Len(frame.index_names)
set_names(frame, names) == [frame EXCEPT !.index_names = names]

\* ---- Specification of apply_on_column_pairs.
\* The grids handed to it have at most MaxRows rows, all trials of the first
\* stimulus, over the first columns of ColumnNames, and cells of these kinds.
ApplyKinds == {"empty", "nan", "two"}

\* The worked example: one row, column A holds [] and column B holds [1, 2, 3].
ExampleGrid ==
  DataFrame(<<<<1, Stimuli[1]>>>>, IndexNames, SubSeq(ColumnNames, 1, 2),
            [k \in {<<1, Stimuli[1]>>} |->
               [c \in {ColumnNames[1], ColumnNames[2]} |->
                  IF c = ColumnNames[1] THEN <<>> ELSE <<1, 2, 3>>]])

InitApply ==
  /\ \/ \E r \in 0..MaxRows, n \in 0..Len(ColumnNames) :
          \E kinds \in [1..r -> [1..n -> ApplyKinds]] :
            data = GridOf([i \in 1..r |-> Stimuli[1]],
                          SubSeq(ColumnNames, 1, n), kinds)
     \/ data = ExampleGrid
  /\ func = "metric"
  /\ is_symmetric \in BOOLEAN
  /\ column_pairs = <<>>
  /\ res = EmptyODict
  /\ func_calls = <<>>
  /\ group_by = None
  /\ grouped_vals = NoFrame
  /\ feature_df = NoFrame
  /\ test_name = <<>>
  /\ results = NoFrame
  /\ MatchingIdle
  /\ PipelineIdle
  /\ idx = 0
  /\ pc = "apply"

\* Lines 18-23: the column pairs and the empty result dict.
ApplyPairs ==
  /\ pc = "apply"
  /\ column_pairs' = pairs_of(data.columns, is_symmetric)
  /\ res' = EmptyODict
  /\ idx' = 0
  /\ pc' = "rows"
  /\ UNCHANGED <<pipeline_vars, matching_vars, data, func, is_symmetric,
                 func_calls, group_by,
                 grouped_vals, feature_df, test_name, results>>

\* Lines 24-33: one iteration of `for idx in data.index`.
ApplyRow ==
  /\ pc = "rows"
  /\ idx < Len(data.index)
  /\ LET key == data.index[idx + 1]
     IN  /\ res' = odict_set(res, key,
                             row_cells(data, func, key, column_pairs, EmptyODict))
         /\ func_calls' = func_calls \o row_calls(data, key, column_pairs)
  /\ idx' = idx + 1
  /\ UNCHANGED <<pipeline_vars, matching_vars, data, func, is_symmetric,
                 column_pairs, group_by,
                 grouped_vals, feature_df, test_name, results, pc>>

\* Lines 34-36: the dict becomes the returned DataFrame.
ApplyReturn ==
  /\ pc = "rows"
  /\ idx = Len(data.index)
  /\ names_fit(from_dict(res), data.index_names)
  /\ res' = set_names(from_dict(res), data.index_names)
  /\ pc' = "applied"
  /\ UNCHANGED <<pipeline_vars, matching_vars, data, func, is_symmetric,
                 column_pairs,
                 func_calls, group_by, grouped_vals, feature_df, test_name,
                 results, idx>>

\* Lines 34-35 when the names do not fit the index of the new frame: the
\* ValueError leaves apply_on_column_pairs.
ApplyRaise ==
  /\ pc = "rows"
  /\ idx = Len(data.index)
  /\ ~names_fit(from_dict(res), data.index_names)
  /\ res' = from_dict(res)
  /\ pc' = "value_error"
  /\ UNCHANGED <<pipeline_vars, matching_vars, data, func, is_symmetric,
                 column_pairs,
                 func_calls, group_by, grouped_vals, feature_df, test_name,
                 results, idx>>

NextApply == ApplyPairs \/ ApplyRow \/ ApplyReturn \/ ApplyRaise

SpecApply == InitApply /\ [][NextApply]_vars

\* ------------------------------------------------------------------ group_and_aggregate
\* The level of the row index that group_by names.
STIMULUS == <<"stimulus">>
level_value(d, key, by) == key[IndexOf(d.index_names, by[1])]

\* Series.explode on one element: the elements of a list, each on a row of its
\* own; NaN for an empty list.
explode_cell(cell) == IF cell = <<>> THEN <<NaN>> ELSE cell

\* `pd.Series(cells).explode().to_list()`
RECURSIVE explode(_)
explode(cells) ==
  IF cells = <<>> THEN <<>>
  ELSE explode_cell(Head(cells)) \o explode(Tail(cells))

\* The cells of column c in the given rows, in the order of the rows.
cells_of(d, rows, c) == [i \in 1..Len(rows) |-> d.loc[rows[i]][c]]

\* Line 150: `data.groupby(level=group_by).agg(list)` has one row per value of
\* the level, in sorted order, holding the list of the cells of its rows in
\* row order; `.map(...explode...)` pools each such list.
groupby_pooled(d, by) ==
  LET present == SelectSeq(Stimuli,
                   LAMBDA s : \E k \in Range(d.index) : level_value(d, k, by) = s)
      rows_of(s) == SelectSeq(d.index, LAMBDA k : level_value(d, k, by) = s)
  IN  DataFrame(present, by, d.columns,
                [s \in Range(present) |->
                   [c \in Range(d.columns) |->
                      explode(cells_of(d, rows_of(s), c))]])

\* Mutant: the row "all" is added whatever the number of groups.
is_single_group_never(grouped) == FALSE

\* `len(grouped_vals.index) == 1`
is_single_group(grouped) == Len(grouped.index) = 1

\* Lines 154-155: the row "all" pools every row of the data, column by column,
\* and is put under the rows of the groups.
with_group_all(grouped, d) ==
  DataFrame(Append(grouped.index, "all"), grouped.index_names, grouped.columns,
            [s \in Range(grouped.index) \cup {"all"} |->
               IF s \in Range(grouped.index) /\ s # "all" THEN grouped.loc[s]
               ELSE [c \in Range(d.columns) |-> explode(cells_of(d, d.index, c))]])

group_and_aggregate(d, by) ==
  IF by = None THEN d
  ELSE LET grouped == groupby_pooled(d, by)
       IN  IF is_single_group(grouped) THEN grouped
           ELSE with_group_all(grouped, d)

\* ---- Specification of group_and_aggregate.
\* Grids of two columns of lists of measurements, none of them NaN.
GroupKinds == {"empty", "one", "two"}
GroupColumnNames == SubSeq(ColumnNames, 1, 2)

InitGroup ==
  /\ \E r \in 1..MaxGroupRows :
       \E stims \in [1..r -> Range(Stimuli)] :
         \E kinds \in [1..r -> [1..Len(GroupColumnNames) -> GroupKinds]] :
           data = GridOf(stims, GroupColumnNames, kinds)
  /\ group_by \in {None, STIMULUS}
  /\ func = "none"
  /\ is_symmetric = TRUE
  /\ column_pairs = <<>>
  /\ res = EmptyODict
  /\ func_calls = <<>>
  /\ grouped_vals = NoFrame
  /\ feature_df = NoFrame
  /\ test_name = <<>>
  /\ results = NoFrame
  /\ MatchingIdle
  /\ PipelineIdle
  /\ idx = 0
  /\ pc = "group"

\* Lines 148-156.
GroupAndAggregate ==
  /\ pc = "group"
  /\ grouped_vals' = group_and_aggregate(data, group_by)
  /\ pc' = "grouped"
  /\ UNCHANGED <<pipeline_vars, matching_vars, data, func, is_symmetric,
                 column_pairs, res,
                 func_calls, group_by, feature_df, test_name, results, idx>>

NextGroup == GroupAndAggregate

SpecGroup == InitGroup /\ [][NextGroup]_vars

\* ------------------------------------------------------------------ event_feature_statistical_comparison
\* Mutant: "-" is left as it is.
normalize_test_keeping_dash(name) == strip(replace(lower(name), "_", " "))

\* `test_name.lower().replace("_", " ").replace("-", " ").strip()`
normalize_test(name) ==
  strip(replace(replace(lower(name), "_", " "), "-", " "))

\* The names of line 168.
MannWhitneyNames ==
  { <<"u">>,
    <<"u", " ", "t", "e", "s", "t">>,
    <<"m", "a", "n", "n", " ", "w", "h", "i", "t", "n", "e", "y">>,
    <<"m", "a", "n", "n", " ", "w", "h", "i", "t", "n", "e", "y", " ", "u">>,
    <<"m", "a", "n", "n", "w", "h", "i", "t", "n", "e", "y", "u">> }
\* The names of line 170.
RankSumNames ==
  { <<"r", "a", "n", "k", " ", "s", "u", "m">>,
    <<"r", "a", "n", "k", "s", "u", "m">>,
    <<"r", "a", "n", "k", "s", "u", "m", "s">>,
    <<"w", "i", "l", "c", "o", "x", "o", "n", " ", "r", "a", "n", "k", " ", "s", "u", "m">> }

\* Test names a caller passes: the default of the feature analysis, names of
\* the two tests in other spellings, and names of tests that are not offered.
t_Mann_Whitney == <<"M", "a", "n", "n", "-", "W", "h", "i", "t", "n", "e", "y">>
t_Rank_Sum == <<"R", "a", "n", "k", "_", "S", "u", "m">>
t_t_test == <<"t", "-", "t", "e", "s", "t">>
t_U_Test_padded == <<" ", "U", "_", "T", "e", "s", "t", " ">>
t_WILCOXON_RANK_SUM == <<"W", "I", "L", "C", "O", "X", "O", "N", "-", "R", "A", "N", "K", "_", "S", "U", "M">>
t_mann == <<"m", "a", "n", "n">>
TestNames ==
  {t_Mann_Whitney, t_Rank_Sum, t_t_test, t_U_Test_padded, t_WILCOXON_RANK_SUM,
   t_mann}

\* Lines 168-173: the function of scipy.stats, "unknown" for the ValueError.
test_func(name) ==
  IF normalize_test(name) \in MannWhitneyNames THEN "mannwhitneyu"
  ELSE IF normalize_test(name) \in RankSumNames THEN "ranksums"
  ELSE "unknown"

\* Mutant: the cell is kept as it is.
drop_nan_nothing(cell) == cell

\* `[v for v in cell if not np.isnan(v)]`
drop_nan(cell) == SelectSeq(cell, LAMBDA v : ~isnan(v))

\* `feature_df.map(lambda cell: ...)`: a new frame, cell by cell.
map_drop_nan(d) ==
  [d EXCEPT !.loc = [k \in DOMAIN d.loc |->
                       [c \in DOMAIN d.loc[k] |-> drop_nan(d.loc[k][c])]]]

\* The third member of the column labels of the result.
STATISTIC == "statistic"
P_VALUE == "p_value"

\* Lines 180-184: the columns of `{**statistics, **p_values}`, in dict order.
triplets(pairs) ==
  [i \in 1..Len(pairs) |-> <<pairs[i][1], pairs[i][2], STATISTIC>>]
  \o [i \in 1..Len(pairs) |-> <<pairs[i][1], pairs[i][2], P_VALUE>>]

\* Mutant: the p-value counts for more than the statistic.
column_order_p_value_first(cols, triplet) ==
  <<Cardinality({ i \in 1..Len(cols) : cols[i][1] = triplet[1] }),
    Cardinality({ i \in 1..Len(cols) : cols[i][1] = triplet[2] }),
    IF triplet[3] = STATISTIC THEN 0 ELSE 1>>

\* Lines 188-192: the sort key of a column.
column_order(cols, triplet) ==
  <<Cardinality({ i \in 1..Len(cols) : cols[i][1] = triplet[1] }),
    Cardinality({ i \in 1..Len(cols) : cols[i][1] = triplet[2] }),
    IF triplet[3] = STATISTIC THEN 1 ELSE 0>>

\* Python's order on tuples of three numbers.
tuple_less(a, b) ==
  \/ a[1] < b[1]
  \/ a[1] = b[1] /\ a[2] < b[2]
  \/ a[1] = b[1] /\ a[2] = b[2] /\ a[3] < b[3]

\* `sorted(cols, key=..., reverse=True)`: largest key first, columns of equal
\* key in their given order.
sorted_reverse(cols) ==
  LET key(i) == column_order(cols, cols[i])
      rank(i) == 1 + Cardinality({ j \in 1..Len(cols) : tuple_less(key(i), key(j)) })
                   + Cardinality({ j \in 1..(i - 1) : key(j) = key(i) })
  IN  [r \in 1..Len(cols) |-> cols[CHOOSE i \in 1..Len(cols) : rank(i) = r]]

\* `vv[0]` and `vv[1]` fail on a cell that is None.
subscriptable(frame) ==
  \A k \in Range(frame.index) : \A c \in Range(frame.columns) :
    frame.loc[k][c] # None

\* Lines 180-195: one column per pair and kind; the rows are those found in
\* the column dicts and carry no names.
rearranged(frame) ==
  LET cols == triplets(frame.columns)
      rows == IF cols = <<>> THEN <<>> ELSE frame.index
  IN  DataFrame(rows, [i \in 1..Len(frame.index_names) |-> Unnamed],
                sorted_reverse(cols),
                [k \in Range(rows) |->
                   [t \in Range(cols) |->
                      frame.loc[k][<<t[1], t[2]>>][IF t[3] = STATISTIC THEN 1 ELSE 2]]])

\* ---- Specification of event_feature_statistical_comparison.
\* Cells of the grids it is given: empty, NaN only, measurements around a NaN.
CompareKinds == {"empty", "nan", "mixed"}

InitCompare ==
  /\ \/ \E r \in 0..MaxRows, n \in 0..Len(ColumnNames) :
          \E kinds \in [1..r -> [1..n -> CompareKinds]] :
            feature_df = GridOf([i \in 1..r |-> Stimuli[1]],
                                SubSeq(ColumnNames, 1, n), kinds)
     \/ \E r \in 1..MaxRows :
          feature_df = GridOf([i \in 1..r |-> Stimuli[1]], WideColumnNames,
                              [i \in 1..r |->
                                 [j \in 1..Len(WideColumnNames) |-> "mixed"]])
  /\ test_name \in TestNames
  /\ data = NoFrame
  /\ func = "none"
  /\ is_symmetric = TRUE
  /\ column_pairs = <<>>
  /\ res = EmptyODict
  /\ func_calls = <<>>
  /\ group_by = None
  /\ grouped_vals = NoFrame
  /\ results = NoFrame
  /\ MatchingIdle
  /\ PipelineIdle
  /\ idx = 0
  /\ pc = "compare"

\* Lines 167-177 up to the call: the test is found, the NaN are dropped and
\* apply_on_column_pairs is called with the new frame.
CompareStart ==
  /\ pc = "compare"
  /\ test_func(test_name) # "unknown"
  /\ func' = test_func(test_name)
  /\ data' = map_drop_nan(feature_df)
  /\ is_symmetric' = TRUE
  /\ pc' = "apply"
  /\ UNCHANGED <<pipeline_vars, matching_vars, column_pairs, res, func_calls,
                 group_by,
                 grouped_vals, feature_df, test_name, results, idx>>

\* Line 173: ValueError for a name that is in neither set.
CompareUnknown ==
  /\ pc = "compare"
  /\ test_func(test_name) = "unknown"
  /\ pc' = "unknown_test"
  /\ UNCHANGED <<pipeline_vars, matching_vars, analysis_vars, idx>>

\* Lines 180-195 on the frame apply_on_column_pairs returned.
Rearrange ==
  /\ pc = "applied"
  /\ subscriptable(res)
  /\ results' = rearranged(res)
  /\ pc' = "compared"
  /\ UNCHANGED <<pipeline_vars, matching_vars, data, func, is_symmetric,
                 column_pairs, res,
                 func_calls, group_by, grouped_vals, feature_df, test_name, idx>>

\* Lines 180-183 on a frame with a null cell: TypeError.
RearrangeRaise ==
  /\ pc = "applied"
  /\ ~subscriptable(res)
  /\ pc' = "type_error"
  /\ UNCHANGED <<pipeline_vars, matching_vars, analysis_vars, idx>>

NextCompare ==
  \/ CompareStart \/ CompareUnknown
  \/ ApplyPairs \/ ApplyRow \/ ApplyReturn \/ ApplyRaise
  \/ Rearrange \/ RearrangeRaise

SpecCompare == InitCompare /\ [][NextCompare]_vars

\* ------------------------------------------------------------------ metrics
\* Exact quotients in lowest terms, so that equal values are equal pairs.
RECURSIVE gcd(_, _)
gcd(a, b) == IF b = 0 THEN a ELSE gcd(b, a % b)
Reduced(q) ==
  LET g == gcd(abs(q[1]), q[2]) IN <<q[1] \div g, q[2] \div g>>
RatAdd(a, b) == Reduced(<<a[1] * b[2] + b[1] * a[2], a[2] * b[2]>>)
RatSub(a, b) == Reduced(<<a[1] * b[2] - b[1] * a[2], a[2] * b[2]>>)
RatAbs(a) == <<abs(a[1]), a[2]>>
RatMul(a, b) == Reduced(<<a[1] * b[1], a[2] * b[2]>>)
RatMax(a, b) == IF RatLess(a, b) THEN b ELSE a

\* cnst.EVENT_LABELS: the closed set of labels, each with its integer id.
EVENT_LABELS ==
  <<"undefined", "fixation", "saccade", "pso", "smooth_pursuit", "blink">>
_NUM_EVENTS == Len(EVENT_LABELS)
LabelIds == 0..(_NUM_EVENTS - 1)

\* hlp.parse_event_label(e, safe=False): the integer id of a label.
parse_event_label(e) == IndexOf(EVENT_LABELS, e) - 1
parse_all(seq) == [i \in 1..Len(seq) |-> parse_event_label(seq[i])]

\* Levenshtein.distance: the least number of insertions, deletions and
\* substitutions that turn a into b.
RECURSIVE Levenshtein_distance(_, _)
Levenshtein_distance(a, b) ==
  IF a = <<>> THEN Len(b)
  ELSE IF b = <<>> THEN Len(a)
  ELSE IF Head(a) = Head(b) THEN Levenshtein_distance(Tail(a), Tail(b))
  ELSE 1 + min2(Levenshtein_distance(Tail(a), Tail(b)),
                min2(Levenshtein_distance(Tail(a), b),
                     Levenshtein_distance(a, Tail(b))))

\* What a metric returns: a number (as a quotient), or a number that the
\* model does not evaluate (a square root, a sum of logarithms); NoDistance
\* before it returns.
Number(q) == [kind |-> "number", value |-> q]
Sqrt(q) == [kind |-> "sqrt", of |-> q]
KullbackLeibler(m1, m2) == [kind |-> "kl", tm1 |-> m1, tm2 |-> m2]

\* Mutant: the distance is divided by the length of the shorter sequence.
normalized_by_shorter(d, a, b) == Reduced(<<d, min2(Len(a), Len(b))>>)

\* Line 33: `d / max(len(gt), len(pred))`
normalized(d, a, b) == Reduced(<<d, max2(Len(a), Len(b))>>)

\* Lines 27-34, when line 33 does not divide by zero.
levenshtein_distance(a, b, normalize_it) ==
  LET d == Levenshtein_distance(parse_all(a), parse_all(b))
  IN  IF normalize_it THEN Number(normalized(d, a, b)) ELSE Number(Rat(d))

\* Line 33 divides by zero when both sequences are empty.
divides_by_zero(a, b, normalize_it) ==
  normalize_it /\ max2(Len(a), Len(b)) = 0

\* np.zeros((_NUM_EVENTS, _NUM_EVENTS), dtype=int)
zeros == [i \in LabelIds |-> [j \in LabelIds |-> 0]]

\* Lines 92-95: the loop over range(len(seq) - 1), from position i on.
RECURSIVE count_transitions(_, _, _)
count_transitions(seq, i, counts) ==
  IF i > Len(seq) - 1 THEN counts
  ELSE count_transitions(seq, i + 1,
                         [counts EXCEPT ![seq[i]][seq[i + 1]] = @ + 1])

\* Lines 88-96.
_transition_counts(seq) == count_transitions(parse_all(seq), 1, zeros)

\* The sum of f over the label ids 0..n.
RECURSIVE SumTo(_, _)
SumTo(f, n) == IF n < 0 THEN 0 ELSE f[n] + SumTo(f, n - 1)
RECURSIVE RatSumTo(_, _)
RatSumTo(f, n) == IF n < 0 THEN Rat(0) ELSE RatAdd(f[n], RatSumTo(f, n - 1))
RECURSIVE RatMaxTo(_, _)
RatMaxTo(f, n) == IF n = 0 THEN f[0] ELSE RatMax(f[n], RatMaxTo(f, n - 1))

\* Mutant: the counts are returned as they are.
_transition_matrix_of_counts(seq) ==
  LET counts == _transition_counts(seq)
  IN  [i \in LabelIds |-> [j \in LabelIds |-> Rat(counts[i][j])]]

\* Lines 76-85: every row divided by its sum where the sum is not 0, zeros
\* elsewhere.
_transition_matrix(seq) ==
  LET counts == _transition_counts(seq)
      row_sum == [i \in LabelIds |-> SumTo(counts[i], _NUM_EVENTS - 1)]
  IN  [i \in LabelIds |->
         [j \in LabelIds |->
            IF row_sum[i] # 0 THEN Reduced(<<counts[i][j], row_sum[i]>>)
            ELSE Rat(0)]]

\* `tm1 - tm2`
minus(m1, m2) ==
  [i \in LabelIds |-> [j \in LabelIds |-> RatSub(m1[i][j], m2[i][j])]]

\* np.linalg.norm(m, ord=1) of a matrix: the largest sum of the absolute
\* values of a column.
norm_ord_1(m) ==
  RatMaxTo([j \in LabelIds |->
              RatSumTo([i \in LabelIds |-> RatAbs(m[i][j])], _NUM_EVENTS - 1)],
           _NUM_EVENTS - 1)

\* np.linalg.norm(m, ord=np.inf) of a matrix: the largest sum of the absolute
\* values of a row.
norm_ord_inf(m) ==
  RatMaxTo([i \in LabelIds |->
              RatSumTo([j \in LabelIds |-> RatAbs(m[i][j])], _NUM_EVENTS - 1)],
           _NUM_EVENTS - 1)

\* np.linalg.norm(m, ord="fro"): the square root of the sum of the squares.
norm_ord_fro(m) ==
  Sqrt(RatSumTo([i \in LabelIds |->
                   RatSumTo([j \in LabelIds |-> RatMul(m[i][j], m[i][j])],
                            _NUM_EVENTS - 1)],
                _NUM_EVENTS - 1))

\* The norm names of lines 63-70.
m_fro == <<"f", "r", "o">>
m_frobenius == <<"f", "r", "o", "b", "e", "n", "i", "u", "s">>
m_euclidean == <<"e", "u", "c", "l", "i", "d", "e", "a", "n">>
m_l2 == <<"l", "2">>
m_l1 == <<"l", "1">>
m_manhattan == <<"m", "a", "n", "h", "a", "t", "t", "a", "n">>
m_linf == <<"l", "i", "n", "f">>
m_infinity == <<"i", "n", "f", "i", "n", "i", "t", "y">>
m_max == <<"m", "a", "x">>
m_kl == <<"k", "l">>
m_kullback_leibler ==
  <<"k", "u", "l", "l", "b", "a", "c", "k", "-", "l", "e", "i", "b", "l", "e", "r">>

\* Mutant: a name that no branch takes is treated as the Frobenius norm.
norm_branch_with_fallback(name) ==
  IF name \in {m_l1, m_manhattan} THEN "l1"
  ELSE IF name \in {m_linf, m_infinity, m_max} THEN "linf"
  ELSE IF name \in {m_kl, m_kullback_leibler} THEN "kl"
  ELSE "fro"

\* Lines 63-73: the branch that a lower-cased name takes, "raise" for line 73.
norm_branch(name) ==
  IF name \in {m_fro, m_frobenius, m_euclidean, m_l2} THEN "fro"
  ELSE IF name \in {m_l1, m_manhattan} THEN "l1"
  ELSE IF name \in {m_linf, m_infinity, m_max} THEN "linf"
  ELSE IF name \in {m_kl, m_kullback_leibler} THEN "kl"
  ELSE "raise"

\* Lines 62-72 on the two matrices.
norm_distance(m1, m2, name) ==
  LET branch == norm_branch(lower(name))
  IN  CASE branch = "fro" -> norm_ord_fro(minus(m1, m2))
        [] branch = "l1" -> Number(norm_ord_1(minus(m1, m2)))
        [] branch = "linf" -> Number(norm_ord_inf(minus(m1, m2)))
        [] branch = "kl" -> KullbackLeibler(m1, m2)

\* ---- Specification of the metrics.
\* The labels of the two sequences and the spellings of the norm a caller
\* passes: "L1", "Manhattan", "linf", "MAX", "fro", "KL", and two names of no
\* norm, "cosine" and "l3".
SequenceLabels == {"fixation", "saccade", "blink"}
PredictedLabels == {"fixation", "saccade"}
c_L1 == <<"L", "1">>
c_Manhattan == <<"M", "a", "n", "h", "a", "t", "t", "a", "n">>
c_MAX == <<"M", "A", "X">>
c_KL == <<"K", "L">>
c_cosine == <<"c", "o", "s", "i", "n", "e">>
c_l3 == <<"l", "3">>
NormNames == {c_L1, c_Manhattan, m_linf, c_MAX, m_fro, c_KL, c_cosine, c_l3}

InitMetrics ==
  /\ gt_seq \in ListsUpTo(SequenceLabels, MaxSeqLen)
  /\ pred \in ListsUpTo(PredictedLabels, MaxSeqLen)
  /\ \/ /\ pc = "levenshtein_distance"
        /\ do_normalization \in BOOLEAN
        /\ norm = <<>>
     \/ /\ pc = "transition_matrix_distance"
        /\ do_normalization = TRUE
        /\ norm \in NormNames
  /\ tm1 = <<>>
  /\ tm2 = <<>>
  /\ distance = NoDistance
  /\ AnalysisIdle
  /\ MatchingIdle
  /\ FactoryIdle
  /\ ExtractionIdle
  /\ IterationIdle
  /\ idx = 0

\* Lines 27-34.
LevenshteinDistance ==
  /\ pc = "levenshtein_distance"
  /\ ~divides_by_zero(gt_seq, pred, do_normalization)
  /\ distance' = levenshtein_distance(gt_seq, pred, do_normalization)
  /\ pc' = "returned"
  /\ UNCHANGED <<helper_vars, beside_metrics, gt_seq, pred, norm,
                 do_normalization, tm1, tm2>>

\* Line 33 on two empty sequences: ZeroDivisionError.
LevenshteinRaise ==
  /\ pc = "levenshtein_distance"
  /\ divides_by_zero(gt_seq, pred, do_normalization)
  /\ pc' = "zero_division_error"
  /\ UNCHANGED <<helper_vars, beside_metrics, metrics_vars>>

\* Lines 60-61.
TransitionMatrices ==
  /\ pc = "transition_matrix_distance"
  /\ tm1' = _transition_matrix(gt_seq)
  /\ tm2' = _transition_matrix(pred)
  /\ pc' = "norm"
  /\ UNCHANGED <<helper_vars, beside_metrics, gt_seq, pred, norm,
                 do_normalization, distance>>

\* Lines 62-72: the branch of the norm returns.
NormDistance ==
  /\ pc = "norm"
  /\ norm_branch(lower(norm)) # "raise"
  /\ distance' = norm_distance(tm1, tm2, norm)
  /\ pc' = "returned"
  /\ UNCHANGED <<helper_vars, beside_metrics, gt_seq, pred, norm,
                 do_normalization, tm1, tm2>>

\* Line 73: ValueError.
NormRaise ==
  /\ pc = "norm"
  /\ norm_branch(lower(norm)) = "raise"
  /\ pc' = "value_error"
  /\ UNCHANGED <<helper_vars, beside_metrics, metrics_vars>>

NextMetrics ==
  \/ LevenshteinDistance \/ LevenshteinRaise
  \/ TransitionMatrices \/ NormDistance \/ NormRaise

SpecMetrics == InitMetrics /\ [][NextMetrics]_vars

\* ------------------------------------------------------------------ EventFactory
\* cnfg.EVENT_LABELS.UNDEFINED
UNDEFINED == EVENT_LABELS[1]

\* arr_utils.get_chunk_indices: the positions of every maximal run of equal
\* consecutive values, run by run in order (positions count from 1 here, from
\* 0 in the arrays of the code).
RECURSIVE chunks_from(_, _, _)
chunks_from(arr, i, acc) ==
  IF i > Len(arr) THEN acc
  ELSE IF acc # <<>> /\ arr[i] = arr[i - 1]
       THEN chunks_from(arr, i + 1, [acc EXCEPT ![Len(acc)] = Append(@, i)])
       ELSE chunks_from(arr, i + 1, Append(acc, <<i>>))
get_chunk_indices(arr) == chunks_from(arr, 1, <<>>)

\* `t[idxs]`
take(arr, idxs) == [k \in 1..Len(idxs) |-> arr[idxs[k]]]

\* What the constructor of the label's event class is given.
Event(label, ts) == [label |-> label, timestamps |-> ts]

\* Mutant: an event is made for every label.
make_for_every_label(label, ts, minimum) ==
  IF Len(ts) < minimum THEN None ELSE Event(label, ts)

\* EventFactory.make: None for the undefined label and for too few samples
\* (a test that only peyes/GazeEvents/EventFactory.py has), the event of the
\* label otherwise.
make(label, ts, minimum) ==
  IF label = UNDEFINED THEN None
  ELSE IF Len(ts) < minimum THEN None
  ELSE Event(label, ts)

\* Line 79: `[ev for ev in event_list if ev is not None]`
not_none(events) == SelectSeq(events, LAMBDA ev : ev # None)

\* ---- Specification of EventFactory.make_multiple.
\* The labels of the samples; timestamps 1, 2, ...; the threshold of the
\* configuration, 0 for the module whose make does not test the length.
SampleLabels == {UNDEFINED, "fixation", "saccade"}
MinimumSamples == {0, 2}

InitFactory ==
  /\ labels \in ListsUpTo(SampleLabels, MaxSamples)
  /\ \E n \in 0..MaxSamples : timestamps = [i \in 1..n |-> i]
  /\ minimum_samples_in_event \in MinimumSamples
  /\ chunk_idxs = <<>>
  /\ event_list = <<>>
  /\ AnalysisIdle
  /\ MatchingIdle
  /\ MetricsIdle
  /\ ExtractionIdle
  /\ IterationIdle
  /\ idx = 0
  /\ pc = "make_multiple"

\* Lines 68-69: ValueError.
MakeMultipleRaise ==
  /\ pc = "make_multiple"
  /\ Len(labels) # Len(timestamps)
  /\ pc' = "value_error"
  /\ UNCHANGED <<helper_vars, beside_factory, factory_vars>>

\* Lines 68-71.
MakeMultipleStart ==
  /\ pc = "make_multiple"
  /\ Len(labels) = Len(timestamps)
  /\ chunk_idxs' = get_chunk_indices(labels)
  /\ event_list' = <<>>
  /\ pc' = "chunks"
  /\ UNCHANGED <<helper_vars, beside_factory, labels, timestamps,
                 minimum_samples_in_event>>

\* Lines 72-78: one iteration of the loop over the chunks.
MakeChunk ==
  /\ pc = "chunks"
  /\ idx < Len(chunk_idxs)
  /\ LET idxs == chunk_idxs[idx + 1]
         l == labels[idxs[1]]
     IN  event_list' = Append(event_list,
                              make(l, take(timestamps, idxs),
                                   minimum_samples_in_event))
  /\ idx' = idx + 1
  /\ UNCHANGED <<matching_vars, analysis_vars, beside_factory, labels,
                 timestamps, minimum_samples_in_event, chunk_idxs, pc>>

\* Lines 79-80.
MakeMultipleReturn ==
  /\ pc = "chunks"
  /\ idx = Len(chunk_idxs)
  /\ event_list' = not_none(event_list)
  /\ pc' = "made"
  /\ UNCHANGED <<helper_vars, beside_factory, labels, timestamps,
                 minimum_samples_in_event, chunk_idxs>>

NextFactory ==
  \/ MakeMultipleRaise \/ MakeMultipleStart \/ MakeChunk \/ MakeMultipleReturn

SpecFactory == InitFactory /\ [][NextFactory]_vars

\* ------------------------------------------------------------------ feature extraction
\* Events as the analyzers see them: a label, and the geometric attributes
\* that the event class of the label has. The values are told apart by the
\* number i of the event.
GeometricEvent(kind, i) ==
  CASE kind = "fixation" -> [event_label |-> "fixation", number |-> i]
    [] kind = "pso" ->
         [event_label |-> "pso", number |-> i, peak_velocity |-> 10 * i + 3]
    [] kind = "saccade" ->
         [event_label |-> "saccade", number |-> i, amplitude |-> 10 * i + 1,
          azimuth |-> 10 * i + 2, peak_velocity |-> 10 * i + 3]
EventKinds == {"fixation", "pso", "saccade"}

\* The names of the features and of the attributes.
f_Amplitude == <<"A", "m", "p", "l", "i", "t", "u", "d", "e">>
f_Azimuth == <<"A", "z", "i", "m", "u", "t", "h">>
f_Peak_Velocity == <<"P", "e", "a", "k", " ", "V", "e", "l", "o", "c", "i", "t", "y">>
f_Amplitude_Difference == <<"A", "m", "p", "l", "i", "t", "u", "d", "e", " ", "D", "i", "f", "f", "e", "r", "e", "n", "c", "e">>
f_Azimuth_Difference == <<"A", "z", "i", "m", "u", "t", "h", " ", "D", "i", "f", "f", "e", "r", "e", "n", "c", "e">>
f_Peak_Velocity_Difference == <<"P", "e", "a", "k", " ", "V", "e", "l", "o", "c", "i", "t", "y", " ", "D", "i", "f", "f", "e", "r", "e", "n", "c", "e">>
AttributeNames ==
  [amplitude |-> <<"a", "m", "p", "l", "i", "t", "u", "d", "e">>,
   azimuth |-> <<"a", "z", "i", "m", "u", "t", "h">>,
   peak_velocity |-> <<"p", "e", "a", "k", "_", "v", "e", "l", "o", "c", "i", "t", "y">>]

\* hasattr(e, attr) and getattr(e, attr)
hasattr(e, attr) ==
  \E f \in DOMAIN e \cap DOMAIN AttributeNames : AttributeNames[f] = attr
getattr(e, attr) ==
  e[CHOOSE f \in DOMAIN e \cap DOMAIN AttributeNames : AttributeNames[f] = attr]

\* BaseAnalyzer lines 225-226 (EventFeaturesAnalyzer lines 70-71): the lambda.
feature_values(cell, attr, ignored) ==
  LET kept == SelectSeq(cell, LAMBDA e : e.event_label \notin ignored
                                          /\ hasattr(e, attr))
  IN  [i \in 1..Len(kept) |-> getattr(kept[i], attr)]

\* BaseAnalyzer lines 224-227; `events_df.map(...)` is a new frame, made
\* cell by cell.
extract_feature(d, feat, ignored) ==
  LET attr == replace(lower(feat), " ", "_")
      mapped == [d EXCEPT !.loc =
                   [k \in DOMAIN d.loc |->
                      [c \in DOMAIN d.loc[k] |->
                         feature_values(d.loc[k][c], attr, ignored)]]]
  IN  group_and_aggregate(mapped, STIMULUS)

\* DetectorComparisonAnalyzer lines 270-285: the attribute a difference
\* feature reads from both events of a pair.
difference_attribute(feat) ==
  CASE feat = f_Amplitude_Difference -> AttributeNames.amplitude
    [] feat = f_Azimuth_Difference -> AttributeNames.azimuth
    [] feat = f_Peak_Velocity_Difference -> AttributeNames.peak_velocity

\* The pairs (k, v) of `cell.items()` that pass `k.event_label not in
\* ignore_events`.
kept_pairs(cell, ignored) ==
  SelectSeq(cell, LAMBDA kv : kv[1].event_label \notin ignored)

\* `k.amplitude - v.amplitude` raises AttributeError when k or v has no such
\* attribute.
raises_attribute_error(d, feat, ignored) ==
  \E k \in DOMAIN d.loc : \E c \in DOMAIN d.loc[k] :
    LET kept == kept_pairs(d.loc[k][c], ignored)
    IN  \E i \in 1..Len(kept) :
          \/ ~hasattr(kept[i][1], difference_attribute(feat))
          \/ ~hasattr(kept[i][2], difference_attribute(feat))

\* DetectorComparisonAnalyzer lines 270-285: the lambda on a cell that is not
\* null.
difference_values(cell, attr, ignored) ==
  LET kept == kept_pairs(cell, ignored)
  IN  [i \in 1..Len(kept) |-> getattr(kept[i][1], attr) - getattr(kept[i][2], attr)]

\* DetectorComparisonAnalyzer lines 270-288.
calc_matched_events_feature_impl(d, feat, ignored) ==
  LET attr == difference_attribute(feat)
      mapped == [d EXCEPT !.loc =
                   [k \in DOMAIN d.loc |->
                      [c \in DOMAIN d.loc[k] |->
                         difference_values(d.loc[k][c], attr, ignored)]]]
  IN  group_and_aggregate(mapped, STIMULUS)

\* ---- Specification of the extraction of a geometric feature.
\* One rater's events (or matched pairs) of one trial.
OneCell(cell) ==
  LET row == <<1, Stimuli[1]>>
  IN  DataFrame(<<row>>, IndexNames, <<ColumnNames[1]>>,
                [k \in {row} |-> [c \in {ColumnNames[1]} |-> cell]])
the_cell(frame) == frame.loc[frame.index[1]][frame.columns[1]]

EventFeatures == {f_Amplitude, f_Azimuth, f_Peak_Velocity}
DifferenceFeatures ==
  {f_Amplitude_Difference, f_Azimuth_Difference, f_Peak_Velocity_Difference}
IgnoreSets == {{}, {"fixation"}, {"saccade"}}

InitExtract ==
  /\ \/ /\ pc = "extract_event_features"
        /\ \E n \in 0..MaxCellEvents : \E kinds \in [1..n -> EventKinds] :
             events_df = OneCell([i \in 1..n |-> GeometricEvent(kinds[i], i)])
        /\ matches_df = NoFrame
        /\ feature \in EventFeatures
     \/ /\ pc = "calc_matched_events_feature"
        /\ \E n \in 0..MaxCellEvents :
             \E kinds \in [1..n -> EventKinds \X EventKinds] :
               matches_df = OneCell([i \in 1..n |->
                                       <<GeometricEvent(kinds[i][1], 2 * i - 1),
                                         GeometricEvent(kinds[i][2], 2 * i)>>])
        /\ events_df = NoFrame
        /\ feature \in DifferenceFeatures
  /\ ignore_events \in IgnoreSets
  /\ extracted = NoFrame
  /\ AnalysisIdle
  /\ MatchingIdle
  /\ MetricsIdle
  /\ FactoryIdle
  /\ IterationIdle
  /\ idx = 0

\* BaseAnalyzer lines 224-228.
ExtractEventFeature ==
  /\ pc = "extract_event_features"
  /\ extracted' = extract_feature(events_df, feature, ignore_events)
  /\ pc' = "extracted"
  /\ UNCHANGED <<helper_vars, beside_extraction, events_df, matches_df,
                 ignore_events, feature>>

\* DetectorComparisonAnalyzer lines 270-288.
CalcMatchedFeature ==
  /\ pc = "calc_matched_events_feature"
  /\ ~raises_attribute_error(matches_df, feature, ignore_events)
  /\ extracted' = calc_matched_events_feature_impl(matches_df, feature,
                                                   ignore_events)
  /\ pc' = "extracted"
  /\ UNCHANGED <<helper_vars, beside_extraction, events_df, matches_df,
                 ignore_events, feature>>

\* DetectorComparisonAnalyzer lines 270-285: AttributeError.
CalcMatchedRaise ==
  /\ pc = "calc_matched_events_feature"
  /\ raises_attribute_error(matches_df, feature, ignore_events)
  /\ pc' = "attribute_error"
  /\ UNCHANGED <<helper_vars, beside_extraction, extraction_vars>>

NextExtract == ExtractEventFeature \/ CalcMatchedFeature \/ CalcMatchedRaise

SpecExtract == InitExtract /\ [][NextExtract]_vars

\* ------------------------------------------------------------------ detect_multiple_times
\* A data frame of gaze samples: row k (its index label) holds the trial, the
\* timestamp and the coordinates of sample k.
Sample(tr, k) == [trial |-> tr, t |-> k, x |-> 10 + k, y |-> 20 + k]
Trials == {1, 2}

\* `data[cnst.TRIAL].unique()`: the trials in the order of their first row.
unique_trials(d) ==
  LET first == SelectSeq([k \in 1..Len(d) |-> k],
                         LAMBDA k : \A j \in 1..(k - 1) : d[j].trial # d[k].trial)
  IN  [n \in 1..Len(first) |-> d[first[n]].trial]

\* `data[data[cnst.TRIAL] == tr]`: the index labels of the rows of a trial.
trial_index(d, tr) ==
  SelectSeq([k \in 1..Len(d) |-> k], LAMBDA k : d[k].trial = tr)

\* What detector.detect returns for the rows it is given and the labels it
\* finds: the gaze frame with one row per sample.
detected(d, rows, event) ==
  [gaze |-> [n \in 1..Len(rows) |->
               [t |-> d[rows[n]].t, x |-> d[rows[n]].x, y |-> d[rows[n]].y,
                event |-> event[n]]]]

\* Line 44: `trial_data.index[detected_event_labels == SACCADE]`
saccade_index(rows, event) ==
  LET at == SelectSeq([n \in 1..Len(rows) |-> n], LAMBDA n : event[n] = "saccade")
  IN  [n \in 1..Len(at) |-> rows[at[n]]]

\* Mutant: only x is set to NaN.
nullified_x_only(d, idxs) ==
  [k \in 1..Len(d) |->
     IF k \in Range(idxs) THEN [d[k] EXCEPT !.x = NaN] ELSE d[k]]

\* Lines 45-46: `data.loc[saccade_idxs, X] = np.nan` and the same for Y.
nullified(d, idxs) ==
  [k \in 1..Len(d) |->
     IF k \in Range(idxs) THEN [d[k] EXCEPT !.x = NaN, !.y = NaN] ELSE d[k]]

\* Line 27: writing to the copy leaves the frame of the caller as it was.
callers_frame(frame, copy) == frame

\* ---- Specification of detect_multiple_times.
DetectedLabels == {"fixation", "saccade"}

InitDetect ==
  /\ \E n \in 0..MaxGazeSamples : \E tr \in [1..n -> Trials] :
       dataset = [k \in 1..n |-> Sample(tr[k], k)]
  /\ num_iterations \in 0..MaxIterations
  /\ data_copy = <<>>
  /\ iteration = 0
  /\ iter_results = EmptyODict
  /\ multi_detect = EmptyODict
  /\ AnalysisIdle
  /\ MatchingIdle
  /\ MetricsIdle
  /\ FactoryIdle
  /\ ExtractionIdle
  /\ idx = 0
  /\ pc = "detect_multiple_times"

\* Lines 27-28.
DetectStart ==
  /\ pc = "detect_multiple_times"
  /\ data_copy' = dataset
  /\ multi_detect' = EmptyODict
  /\ iteration' = 0
  /\ pc' = "iterations"
  /\ UNCHANGED <<helper_vars, beside_iteration, dataset, num_iterations,
                 iter_results>>

\* Lines 31-32: an iteration begins.
IterationStart ==
  /\ pc = "iterations"
  /\ iteration < num_iterations
  /\ iter_results' = EmptyODict
  /\ idx' = 0
  /\ pc' = "trials"
  /\ UNCHANGED <<matching_vars, analysis_vars, beside_iteration, dataset,
                 num_iterations, data_copy, iteration, multi_detect>>

\* Lines 33-46: one trial is detected and its saccades are nullified; the
\* detector may label the samples in any way.
DetectTrial ==
  /\ pc = "trials"
  /\ idx < Len(unique_trials(data_copy))
  /\ LET tr == unique_trials(data_copy)[idx + 1]
         rows == trial_index(data_copy, tr)
     IN  \E event \in [1..Len(rows) -> DetectedLabels] :
           /\ iter_results' = odict_set(iter_results, tr,
                                        detected(data_copy, rows, event))
           /\ data_copy' = nullified(data_copy, saccade_index(rows, event))
           /\ dataset' = callers_frame(dataset, data_copy')
  /\ idx' = idx + 1
  /\ UNCHANGED <<matching_vars, analysis_vars, beside_iteration,
                 num_iterations, iteration, multi_detect, pc>>

\* Line 48: the results of the iteration are stored under i + 1.
IterationEnd ==
  /\ pc = "trials"
  /\ idx = Len(unique_trials(data_copy))
  /\ multi_detect' = odict_set(multi_detect, iteration + 1, iter_results)
  /\ iteration' = iteration + 1
  /\ pc' = "iterations"
  /\ UNCHANGED <<helper_vars, beside_iteration, dataset, num_iterations,
                 data_copy, iter_results>>

\* Line 49.
DetectReturn ==
  /\ pc = "iterations"
  /\ iteration = num_iterations
  /\ pc' = "table"
  /\ UNCHANGED <<helper_vars, beside_iteration, iteration_vars>>

NextDetect ==
  \/ DetectStart \/ IterationStart \/ DetectTrial \/ IterationEnd
  \/ DetectReturn

SpecDetect == InitDetect /\ [][NextDetect]_vars

\* ------------------------------------------------------------------ claims
\* The four threshold predicates of the candidate filter, for ground-truth
\* event g and prediction q under the thresholds of the current call.
MeetsAllFour(g, q) ==
  /\ overlap_time(g, q) >= min_overlap
  /\ overlap_time(g, q) * min_iou[2] >=
       min_iou[1] * (duration(g) + duration(q) - overlap_time(g, q))
  /\ q.start_time - g.start_time <= max_onset_latency
  /\ g.start_time - q.start_time <= max_onset_latency
  /\ q.end_time - g.end_time <= max_offset_latency
  /\ g.end_time - q.end_time <= max_offset_latency

\* q is a candidate for g: it meets the four thresholds and, when
\* cross-matching is disallowed, has g's label.
IsCandidate(g, q) ==
  /\ MeetsAllFour(g, q)
  /\ allow_cross_matching \/ q.label = g.label

\* The positions of the prediction sequence that hold a candidate for g.
CandidatePositions(g) ==
  { j \in 1..Len(predictions) : IsCandidate(g, predictions[j]) }

\* The candidates for g in the order of the prediction sequence.
CandidatesInOrder(g) ==
  LET Q == CandidatePositions(g)
      nth(i) == CHOOSE j \in Q : Cardinality({k \in Q : k < j}) = i - 1
  IN  [i \in 1..Cardinality(Q) |-> predictions[nth(i)]]

\* C1: every element of the list returned by _find_matches(g, P, ...) is an
\* element of P and satisfies the four threshold predicates at once.
C1_CandidatesAreQualifyingPredictions ==
  pc = "found" =>
    \A i \in 1..Len(possible_matches) :
      /\ \E j \in 1..Len(predictions) : predictions[j] = possible_matches[i]
      /\ MeetsAllFour(gt, possible_matches[i])

\* C1 witness: a call with every threshold bound that kept one of two
\* predictions.
C1_Witness ==
  /\ pc = "found"
  /\ allow_cross_matching
  /\ min_overlap = 1 /\ min_iou = <<1, 2>>
  /\ max_onset_latency = 0 /\ max_offset_latency = 0
  /\ Len(predictions) = 2
  /\ Len(possible_matches) = 1

\* C2: _find_matches returns exactly the qualifying predictions (the four
\* thresholds and, when cross-matching is disallowed, g's label), none dropped
\* or duplicated, in the order they have in P.
C2_FilterKeepsExactlyTheQualifyingInOrder ==
  pc = "found" => possible_matches = CandidatesInOrder(gt)

\* C2 witness: two different predictions were kept, in P's order, by a call
\* that binds a threshold and disallows cross-matching.
C2_Witness ==
  /\ pc = "found"
  /\ ~allow_cross_matching
  /\ min_overlap = 1
  /\ Len(possible_matches) = 2
  /\ possible_matches[1] # possible_matches[2]
  /\ possible_matches = predictions

\* C3: with cross-matching disallowed every prediction matched to a
\* ground-truth event by generic_matching has that event's label, whatever the
\* thresholds and the reduction; with cross-matching allowed the candidates of
\* an iteration are the predictions meeting the four thresholds, whatever
\* their label.
C3_CrossMatchingDecidesTheUseOfLabels ==
  /\ ~allow_cross_matching =>
       \A g \in DOMAIN matches :
         \A i \in 1..Len(matches[g]) : matches[g][i].label = g.label
  /\ (allow_cross_matching /\ idx > 0) =>
       /\ \A j \in 1..Len(predictions) :
            MeetsAllFour(gt, predictions[j]) =>
              \E i \in 1..Len(possible_matches) :
                possible_matches[i] = predictions[j]
       /\ Len(possible_matches) =
            Cardinality({j \in 1..Len(predictions) :
                           MeetsAllFour(gt, predictions[j])})

\* C3 witness: a finished run without cross-matching that recorded a match for
\* a ground-truth event although a prediction of another label also met the
\* four thresholds for it.
C3_Witness ==
  /\ pc = "done"
  /\ ~allow_cross_matching
  /\ \E g \in DOMAIN matches :
       \E j \in 1..Len(predictions) :
         /\ predictions[j].label # g.label
         /\ MeetsAllFour(g, predictions[j])

\* C4: in the mapping returned by generic_matching under a known reduction, a
\* ground-truth event is a key exactly when it has a candidate (a prediction
\* passing every criterion of the call); every key is a ground-truth event and
\* every value is a non-empty list of candidates of its key.
C4_KeysAreTheEventsWithCandidates ==
  (pc = "done" /\ normalize(reduction) \in KnownReductions) =>
    /\ \A k \in 1..Len(ground_truth) :
         ground_truth[k] \in DOMAIN matches
           <=> CandidatePositions(ground_truth[k]) # {}
    /\ \A g \in DOMAIN matches :
         /\ \E k \in 1..Len(ground_truth) : ground_truth[k] = g
         /\ Len(matches[g]) >= 1
         /\ \A i \in 1..Len(matches[g]) :
              \E j \in CandidatePositions(g) : predictions[j] = matches[g][i]

\* C4 witness: a returned mapping in which one of two ground-truth events is a
\* key and the other, having no candidate, is not.
C4_Witness ==
  /\ pc = "done"
  /\ normalize(reduction) \in KnownReductions
  /\ Len(ground_truth) = 2
  /\ Len(predictions) >= 1
  /\ ground_truth[1] \in DOMAIN matches
  /\ ground_truth[2] \notin DOMAIN matches

\* The reductions that pick one candidate.
SinglePickReductions == KnownReductions \ {n_all}

\* C5: a reduction name outside the eight known names makes _choose_match
\* raise NotImplementedError for every candidate list, whatever its size.
C5_UnknownReductionAlwaysRaises ==
  (pc # "call_choose" /\ normalize(reduction) \notin KnownReductions) =>
    pc = "not_implemented"

\* C6: for a candidate list of exactly one element _choose_match returns the
\* one-element list holding that candidate under each of the eight reductions.
C6_OneCandidateIsReturnedUnderEveryReduction ==
  (/\ pc # "call_choose"
   /\ Len(possible_matches) = 1
   /\ normalize(reduction) \in KnownReductions) =>
    /\ pc = "chosen"
    /\ Len(p) = 1
    /\ p[1] = possible_matches[1]

\* C6 witness: a single-pick reduction, spelled with capitals and blanks,
\* returned the only candidate.
C6_Witness ==
  /\ pc = "chosen"
  /\ reduction = r_IOU
  /\ Len(possible_matches) = 1
  /\ p = possible_matches

\* C7: with two or more candidates each single-pick reduction returns a
\* one-element list whose element is a candidate attaining the reduction's
\* extremum over the whole candidate list.
C7_SinglePickAttainsTheExtremum ==
  LET r == normalize(reduction)
      n == Len(possible_matches)
  IN  (pc # "call_choose" /\ n >= 2 /\ r \in SinglePickReductions) =>
        /\ pc = "chosen"
        /\ Len(p) = 1
        /\ \E i \in 1..n : possible_matches[i] = p[1]
        /\ \A i \in 1..n :
             LET e == possible_matches[i]
                 c == p[1]
             IN  /\ r = n_first => c.start_time <= e.start_time
                 /\ r = n_last => c.start_time >= e.start_time
                 /\ r = n_longest =>
                      c.end_time - c.start_time >= e.end_time - e.start_time
                 /\ r = n_max_overlap =>
                      overlap_time(gt, c) >= overlap_time(gt, e)
                 /\ r = n_iou =>
                      RatLeq(intersection_over_union(gt, e),
                             intersection_over_union(gt, c))
                 /\ r = n_onset_latency =>
                      abs(c.start_time - gt.start_time)
                        <= abs(e.start_time - gt.start_time)
                 /\ r = n_offset_latency =>
                      abs(c.end_time - gt.end_time)
                        <= abs(e.end_time - gt.end_time)

\* C7 witness: "longest" picked, out of three candidates, the only longest
\* one, which is not the first of the list.
C7_Witness ==
  /\ pc = "chosen"
  /\ normalize(reduction) = n_longest
  /\ Len(possible_matches) = 3
  /\ Len(p) = 1
  /\ p[1] # possible_matches[1]
  /\ \A i \in 1..3 :
       possible_matches[i] # p[1] => duration(possible_matches[i]) < duration(p[1])

\* The quantity a single-pick reduction r minimises for candidate e (the
\* maximised quantities are negated).
Minimised(r, g, e) ==
  CASE r = n_first -> Rat(e.start_time)
    [] r = n_last -> Rat(0 - e.start_time)
    [] r = n_longest -> Rat(0 - (e.end_time - e.start_time))
    [] r = n_max_overlap -> Rat(0 - overlap_time(g, e))
    [] r = n_iou -> <<0 - intersection_over_union(g, e)[1],
                      intersection_over_union(g, e)[2]>>
    [] r = n_onset_latency -> Rat(abs(e.start_time - g.start_time))
    [] r = n_offset_latency -> Rat(abs(e.end_time - g.end_time))

\* Position i holds a candidate that is best for reduction r.
IsBest(r, i) ==
  \A j \in 1..Len(possible_matches) :
    RatLeq(Minimised(r, gt, possible_matches[i]),
           Minimised(r, gt, possible_matches[j]))

\* C8: when several candidates tie on the quantity a single-pick reduction
\* optimises, the one returned is the tied candidate at the first position of
\* the candidate list, for minimising and maximising reductions alike.
C8_TiesGoToTheFirstOccurrence ==
  LET r == normalize(reduction)
      n == Len(possible_matches)
  IN  (pc = "chosen" /\ n >= 2 /\ r \in SinglePickReductions) =>
        \E k \in 1..n :
          /\ IsBest(r, k)
          /\ \A i \in 1..(k - 1) : ~IsBest(r, i)
          /\ p = <<possible_matches[k]>>

\* C8 witness: two different candidates tie as the longest and the earlier
\* one in the list was returned.
C8_Witness ==
  /\ pc = "chosen"
  /\ normalize(reduction) = n_longest
  /\ \E i, j \in 1..Len(possible_matches) :
       /\ i < j
       /\ IsBest(n_longest, i) /\ IsBest(n_longest, j)
       /\ possible_matches[i] # possible_matches[j]
       /\ p = <<possible_matches[i]>>

\* C9: under the reduction "all" the value recorded for a ground-truth event
\* is its complete candidate list: every candidate once, in the order of the
\* prediction sequence (an event without candidates has no entry).
C9_AllRecordsTheCompleteCandidateList ==
  (pc = "done" /\ normalize(reduction) = n_all) =>
    \A k \in 1..Len(ground_truth) :
      LET g == ground_truth[k]
      IN  IF CandidatePositions(g) = {}
          THEN g \notin DOMAIN matches
          ELSE g \in DOMAIN matches /\ matches[g] = CandidatesInOrder(g)

\* C9 witness: a mapping returned under "all" whose value for a ground-truth
\* event holds two different candidates, in the order of the predictions.
C9_Witness ==
  /\ pc = "done"
  /\ normalize(reduction) = n_all
  /\ \E g \in DOMAIN matches :
       /\ Len(matches[g]) = 2
       /\ matches[g][1] # matches[g][2]
       /\ matches[g] = predictions

\* A ground-truth event and three candidates on which the reductions first,
\* longest and max overlap disagree.
C10_gt == [start_time |-> 1, end_time |-> 2, label |-> "fixation"]
C10_candidates ==
  << [start_time |-> 0, end_time |-> 1, label |-> "fixation"],
     [start_time |-> 1, end_time |-> 2, label |-> "fixation"],
     [start_time |-> 1, end_time |-> 3, label |-> "fixation"] >>

\* C10: there is a ground-truth event and a list of three candidates for
\* which first, longest and max overlap select three pairwise different
\* candidates: on C10_gt and C10_candidates every call returns the pick of its
\* reduction, and the picks of the three reductions differ pairwise.
C10_FirstLongestMaxOverlapDiffer ==
  LET pick(r) == _choose_match(gt, possible_matches, r)
  IN  (pc = "chosen" /\ gt = C10_gt /\ possible_matches = C10_candidates) =>
        /\ p = pick(reduction).value
        /\ \A r \in {n_first, n_longest, n_max_overlap} :
             ~pick(r).raised /\ Len(pick(r).value) = 1
        /\ pick(n_first).value # pick(n_longest).value
        /\ pick(n_first).value # pick(n_max_overlap).value
        /\ pick(n_longest).value # pick(n_max_overlap).value

\* C10 witness: the call with "max overlap" on that case returned the second
\* candidate, neither the earliest nor the longest.
C10_Witness ==
  /\ pc = "chosen"
  /\ gt = C10_gt
  /\ possible_matches = C10_candidates
  /\ normalize(reduction) = n_max_overlap
  /\ p = <<C10_candidates[2]>>

\* The ground-truth events the loop of the current call has been through.
Processed == { ground_truth[i] : i \in 1..idx }

\* The predictions the label rule lets the named call match with g.
Eligible(g) ==
  { i \in 1..Len(predictions) :
      called.allow_cross_matching \/ predictions[i].label = g.label }

OnsetLatency(g, q) == abs(q.start_time - g.start_time)

\* Eligible predictions whose onset latency is within the bound of the caller.
WithinOnsetBound(g) ==
  { i \in Eligible(g) :
      OnsetLatency(g, predictions[i]) <= called.max_onset_latency }

\* C11: onset_latency_matching matches a ground-truth event exactly when some
\* prediction starts within max_onset_latency of it, and then to one such
\* prediction of least onset latency; a prediction beyond the bound is never
\* the match.  On the worked example (ground truth Saccade(0, 10), predictions
\* Saccade(2, 8) and Saccade(9, 20), bound 5) the result maps the ground-truth
\* event to Saccade(2, 8) alone.
C11_OnsetLatencyMatchingTakesTheLeastLatencyWithinTheBound ==
  called.fn = "onset_latency_matching" =>
    /\ \A g \in Processed : (g \in DOMAIN matches) <=> (WithinOnsetBound(g) # {})
    /\ \A g \in DOMAIN matches :
         /\ Len(matches[g]) = 1
         /\ \E i \in WithinOnsetBound(g) :
              /\ matches[g][1] = predictions[i]
              /\ \A j \in WithinOnsetBound(g) :
                   OnsetLatency(g, predictions[i])
                     <= OnsetLatency(g, predictions[j])
    /\ (called = ExampleCall /\ pc = "done") =>
         matches = dict_set(EmptyDict, Saccade(0, 10), <<Saccade(2, 8)>>)

\* A finished onset-latency call that matched an event although one of the
\* eligible predictions started too far from it.
C11_Witness ==
  /\ called.fn = "onset_latency_matching"
  /\ pc = "done"
  /\ \E g \in DOMAIN matches :
       /\ Eligible(g) \ WithinOnsetBound(g) # {}
       /\ WithinOnsetBound(g) # {}

\* Eligible predictions that share time with g, at least min_overlap of it.
Overlapping(g) ==
  { i \in Eligible(g) :
      /\ overlap_time(g, predictions[i]) > 0
      /\ overlap_time(g, predictions[i]) >= called.min_overlap }

\* C12: first_overlap_matching matches a ground-truth event exactly when some
\* prediction overlaps it by at least min_overlap, and then to the earliest
\* such prediction; this for the default min_overlap = 0 as for any other.
C12_FirstOverlapMatchesTheFirstOverlappingPrediction ==
  called.fn = "first_overlap_matching" =>
    /\ \A g \in Processed : (g \in DOMAIN matches) <=> (Overlapping(g) # {})
    /\ \A g \in DOMAIN matches :
         \E i \in Overlapping(g) :
           /\ matches[g] = <<predictions[i]>>
           /\ \A j \in Overlapping(g) :
                predictions[i].start_time <= predictions[j].start_time

Occurrences(a, b) ==
  Cardinality({ k \in 1..Len(column_pairs) : column_pairs[k] = <<a, b>> })

\* The rows apply_on_column_pairs has filled, with their dicts.
FilledRows == IF pc = "rows" THEN Range(res.keys) ELSE {}

\* C14: with is_symmetric the column pairs are the n(n-1)/2 unordered pairs of
\* distinct columns, each once and with the earlier column first; without it
\* they are the n(n-1) ordered pairs of distinct columns, each once; no column
\* is paired with itself; and every row is given a cell for exactly these.
C14_ColumnPairsAreEachPairOfDistinctColumnsOnce ==
  pc \in {"rows", "applied", "value_error"} =>
    LET cols == data.columns
        n == Len(cols)
    IN  /\ \A i, j \in 1..n :
             Occurrences(cols[i], cols[j]) =
               IF i = j THEN 0
               ELSE IF is_symmetric /\ i > j THEN 0
               ELSE 1
        /\ 2 * Len(column_pairs) =
             IF is_symmetric THEN n * (n - 1) ELSE 2 * n * (n - 1)
        /\ \A k \in FilledRows : res.at[k].keys = column_pairs

\* Three columns and a row: three pairs, or six.
C14_Witness ==
  /\ pc = "applied"
  /\ Len(data.columns) = Len(ColumnNames)
  /\ Len(data.index) > 0
  /\ Len(res.columns) > Len(data.columns)

\* The cell apply_on_column_pairs has computed for row k and a pair, while the
\* rows are filled and after it has returned.
CellOf(k, pair) == IF pc = "rows" THEN res.at[k].at[pair] ELSE res.loc[k][pair]
RowsWithCells ==
  IF pc = "rows" THEN Range(res.keys)
  ELSE IF pc = "applied" THEN Range(res.index)
  ELSE {}

\* An empty list, or one of NaN only.
EmptyOrAllNaN(vals) == \A i \in 1..Len(vals) : vals[i] = NaN

CallsFor(k, pair) ==
  { i \in 1..Len(func_calls) :
      func_calls[i].row = k /\ func_calls[i].pair = pair }

\* C15: where either list of a row and pair is empty or holds only NaN, the
\* cell is null and func was not invoked for it; every other cell of the row
\* is computed by func; and the call ends without an exception.  In the
\* one-row grid with A = [] and B = [1, 2, 3] the cell (A, B) is null.
C15_EmptyOrAllNaNSideGivesANullCell ==
  /\ \A k \in RowsWithCells : \A i \in 1..Len(column_pairs) :
       LET pair == column_pairs[i]
       IN  IF EmptyOrAllNaN(data.loc[k][pair[1]])
              \/ EmptyOrAllNaN(data.loc[k][pair[2]])
           THEN CellOf(k, pair) = None /\ CallsFor(k, pair) = {}
           ELSE CellOf(k, pair) # None /\ CallsFor(k, pair) # {}
  /\ (\E k \in Range(data.index) : \E i, j \in 1..Len(data.columns) :
        i # j /\ EmptyOrAllNaN(data.loc[k][data.columns[i]]))
       => pc # "value_error"
  /\ (data = ExampleGrid /\ pc = "applied") =>
       res.loc[data.index[1]][<<ColumnNames[1], ColumnNames[2]>>] = None

\* A returned grid with a row in which one cell is null because a list holds
\* only NaN, and another cell is computed.
C15_Witness ==
  /\ pc = "applied"
  /\ \E k \in Range(res.index) : \E p1, p2 \in Range(res.columns) :
       /\ res.loc[k][p1] = None
       /\ res.loc[k][p2] # None
       /\ \E c \in {p1[1], p1[2]} :
            data.loc[k][c] # <<>> /\ EmptyOrAllNaN(data.loc[k][c])

\* C16: the returned grid has the rows of the input in the input's order and
\* its index names, and one cell for every row and column pair; func is
\* invoked at most once for a cell, with the values of the pair's first column
\* as its first argument.
C16_ReturnedGridHasTheRowsOfTheInput ==
  /\ pc # "value_error"
  /\ pc = "applied" =>
       /\ res.index = data.index
       /\ res.index_names = data.index_names
       /\ \A k \in Range(res.index) :
            DOMAIN res.loc[k] = Range(column_pairs)
  /\ \A k \in RowsWithCells : \A i \in 1..Len(column_pairs) :
       LET pair == column_pairs[i]
       IN  /\ Cardinality(CallsFor(k, pair)) <= 1
           /\ \A c \in CallsFor(k, pair) :
                /\ func_calls[c].vals1 = data.loc[k][pair[1]]
                /\ func_calls[c].vals2 = data.loc[k][pair[2]]
                /\ CellOf(k, pair) =
                     result_of(func, data.loc[k][pair[1]], data.loc[k][pair[2]])

\* The stimuli of the rows of the grid, and the rows of one stimulus in order.
StimuliOf(d) == { k[2] : k \in Range(d.index) }
RowsOfStimulus(d, s) == SelectSeq(d.index, LAMBDA k : k[2] = s)

\* The lengths of the lists, added up.
RECURSIVE TotalLength(_)
TotalLength(lists) ==
  IF lists = <<>> THEN 0 ELSE Len(Head(lists)) + TotalLength(Tail(lists))

\* C17: grouped by stimulus, a grid of one stimulus gives one row and no row
\* "all"; a grid of k >= 2 stimuli gives their k rows and one row "all", whose
\* list is in every column as long as the lists of the k rows together.
C17_OneRowPerStimulusAndAllOnlyForSeveral ==
  (pc = "grouped" /\ group_by = STIMULUS) =>
    LET k == Cardinality(StimuliOf(data))
        rows == grouped_vals.index
        alls == { i \in 1..Len(rows) : rows[i] = "all" }
    IN  /\ k = 1 => Len(rows) = 1 /\ alls = {}
        /\ k >= 2 =>
             /\ Len(rows) = k + 1
             /\ Cardinality(alls) = 1
             /\ Range(rows) = StimuliOf(data) \cup {"all"}
             /\ \A c \in Range(data.columns) :
                  Len(grouped_vals.loc["all"][c]) =
                    TotalLength([i \in 1..k |-> grouped_vals.loc[rows[i]][c]])

\* Two stimuli, one of them with two rows.
C17_Witness ==
  /\ pc = "grouped"
  /\ group_by = STIMULUS
  /\ Cardinality(StimuliOf(data)) = 2
  /\ Len(data.index) > 2
  /\ \E c \in Range(data.columns) : Len(grouped_vals.loc["all"][c]) > 2

\* The concatenation of the lists in cells, in order.
RECURSIVE Concatenation(_)
Concatenation(cells) ==
  IF cells = <<>> THEN <<>> ELSE Head(cells) \o Concatenation(Tail(cells))

\* C18: the pooled list of a group and column is the concatenation, in row
\* order, of the lists of the group's rows in that column: it holds their
\* measurements and nothing else, and is as long as those lists together.
C18_PooledListIsTheConcatenationOfTheGroupsCells ==
  (pc = "grouped" /\ group_by = STIMULUS) =>
    \A s \in StimuliOf(data) : \A c \in Range(data.columns) :
      grouped_vals.loc[s][c] =
        Concatenation(cells_of(data, RowsOfStimulus(data, s), c))

\* The rows and pairs of the comparison in which one of the two lists it was
\* given is empty or holds only NaN.
NullPairs ==
  { kp \in Range(feature_df.index) \X Range(combinations(feature_df.columns)) :
      \/ EmptyOrAllNaN(feature_df.loc[kp[1]][kp[2][1]])
      \/ EmptyOrAllNaN(feature_df.loc[kp[1]][kp[2][2]]) }

\* C19: the comparison of a grid in which a pair of lists has an empty or
\* all-NaN side ends without an exception, with a null statistic and a null
\* p-value for that pair and with the statistic and p-value of every other.
C19_NullPairGivesNullStatisticAndPValue ==
  (test_func(test_name) # "unknown" /\ NullPairs # {}) =>
    /\ pc \notin {"type_error", "value_error"}
    /\ pc = "compared" =>
         \A k \in Range(feature_df.index) :
           \A pair \in Range(combinations(feature_df.columns)) :
             LET st == results.loc[k][<<pair[1], pair[2], STATISTIC>>]
                 pv == results.loc[k][<<pair[1], pair[2], P_VALUE>>]
             IN  IF <<k, pair>> \in NullPairs
                 THEN st = None /\ pv = None
                 ELSE st # None /\ pv # None

\* orig without its NaN is kept: as many elements as orig has measurements, the
\* i-th of them the i-th measurement of orig.
KeptInOrder(orig, kept) ==
  LET measured == { j \in 1..Len(orig) : orig[j] # NaN }
  IN  /\ Len(kept) = Cardinality(measured)
      /\ \A j \in measured :
           kept[1 + Cardinality({ i \in measured : i < j })] = orig[j]

\* C20: every list the test function is called with is free of NaN and is the
\* list of the grid with its NaN taken out, the measurements in their order.
C20_TestIsCalledOnListsWithoutNaN ==
  \A i \in 1..Len(func_calls) :
    LET c == func_calls[i]
    IN  /\ \A j \in 1..Len(c.vals1) : c.vals1[j] # NaN
        /\ \A j \in 1..Len(c.vals2) : c.vals2[j] # NaN
        /\ KeptInOrder(feature_df.loc[c.row][c.pair[1]], c.vals1)
        /\ KeptInOrder(feature_df.loc[c.row][c.pair[2]], c.vals2)

\* The test was called on two lists that held a NaN between measurements.
C20_Witness ==
  /\ test_func(test_name) # "unknown"
  /\ \E i \in 1..Len(func_calls) :
       LET c == func_calls[i]
       IN  /\ \E j \in 1..Len(feature_df.loc[c.row][c.pair[1]]) :
                feature_df.loc[c.row][c.pair[1]][j] = NaN
           /\ Len(c.vals1) > 1

\* Two characters that are the same letter in either case, or are both one of
\* blank, "_" and "-".
Separators == {" ", "_", "-"}
SameCharacter(a, b) ==
  \/ a = b
  \/ \E i \in 1..Len(UpperCase) : {a, b} = {UpperCase[i], LowerCase[i]}
  \/ a \in Separators /\ b \in Separators

\* name spells synonym: after leading and trailing separators are set aside,
\* it has the characters of synonym, case and kind of separator apart.
Spells(name, synonym) ==
  \E lead, trail \in 0..Len(name) :
    /\ lead + Len(synonym) + trail = Len(name)
    /\ \A i \in 1..lead : name[i] \in Separators
    /\ \A i \in 1..trail : name[Len(name) + 1 - i] \in Separators
    /\ \A i \in 1..Len(synonym) : SameCharacter(name[lead + i], synonym[i])

\* The test each name of the model spells, "unknown" for none.
SpelledTest ==
  [name \in TestNames |->
     IF \E syn \in MannWhitneyNames : Spells(name, syn) THEN "mannwhitneyu"
     ELSE IF \E syn \in RankSumNames : Spells(name, syn) THEN "ranksums"
     ELSE "unknown"]

\* C21: a test name that spells a Mann-Whitney synonym selects the
\* Mann-Whitney U test, one that spells a rank-sum synonym the rank-sum test;
\* for any other name the comparison ends in the ValueError, and the test
\* function has not been called on any cell.
C21_TestNameIsResolvedUpToCaseAndSeparators ==
  pc # "compare" =>
    IF SpelledTest[test_name] = "unknown"
    THEN pc = "unknown_test" /\ func_calls = <<>>
    ELSE func = SpelledTest[test_name] /\ pc # "unknown_test"

\* The U test was called for the name " U_Test ".
C21_Witness ==
  /\ test_name = t_U_Test_padded
  /\ func = "mannwhitneyu"
  /\ func_calls # <<>>

\* The positions of a column label among the columns of a frame.
Positions(frame, label) ==
  { i \in 1..Len(frame.columns) : frame.columns[i] = label }

\* C22: the grid that event_feature_statistical_comparison returns has, for
\* every pair of input columns, exactly one statistic column and exactly one
\* p-value column and no other column; the columns whose pair has the same
\* first member are contiguous; and for each pair the statistic column comes
\* before the p-value column.
C22_ResultColumnsAreGroupedByFirstMember ==
  pc = "compared" =>
    LET pairs == combinations(feature_df.columns)
        cols == results.columns
    IN  /\ Len(cols) = 2 * Len(pairs)
        /\ \A k \in 1..Len(pairs) :
             /\ Cardinality(Positions(results, <<pairs[k][1], pairs[k][2], STATISTIC>>)) = 1
             /\ Cardinality(Positions(results, <<pairs[k][1], pairs[k][2], P_VALUE>>)) = 1
             /\ \A i \in Positions(results, <<pairs[k][1], pairs[k][2], STATISTIC>>) :
                  \A j \in Positions(results, <<pairs[k][1], pairs[k][2], P_VALUE>>) :
                    i < j
        /\ \A i, j, k \in 1..Len(cols) :
             (i < j /\ j < k /\ cols[i][1] = cols[k][1]) => cols[j][1] = cols[i][1]

\* A grid of four columns was compared: six pairs, three first members.
C22_Witness ==
  /\ pc = "compared"
  /\ feature_df.columns = WideColumnNames
  /\ Len(results.columns) = 12
  /\ results.columns[1] = <<"A", "B", STATISTIC>>
  /\ results.columns[8] = <<"B", "C", P_VALUE>>

\* How often label id i is directly followed by label id j in a sequence, and
\* how often i is followed by anything.
TransitionCount(seq, i, j) ==
  Cardinality({ k \in 1..(Len(seq) - 1) :
                  seq[k] = EVENT_LABELS[i + 1] /\ seq[k + 1] = EVENT_LABELS[j + 1] })
Outgoing(seq, i) ==
  Cardinality({ k \in 1..(Len(seq) - 1) : seq[k] = EVENT_LABELS[i + 1] })

\* A matrix is the row-normalised transition matrix of a sequence.
IsTransitionMatrixOf(tm, seq) ==
  \A i \in LabelIds :
    /\ \A j \in LabelIds :
         tm[i][j][1] * Outgoing(seq, i) = TransitionCount(seq, i, j) * tm[i][j][2]
    /\ Outgoing(seq, i) > 0 => RatSumTo(tm[i], _NUM_EVENTS - 1) = Rat(1)
    /\ Outgoing(seq, i) = 0 => \A j \in LabelIds : tm[i][j] = Rat(0)

\* The total of the counts over all cells.
TotalCount(counts) ==
  SumTo([i \in LabelIds |-> SumTo(counts[i], _NUM_EVENTS - 1)], _NUM_EVENTS - 1)

\* C23: cell (i, j) of a transition matrix is the number of times label i is
\* directly followed by label j divided by the number of times i is followed
\* by anything; a row with at least one outgoing transition sums to 1, a row
\* with none is all zero; and the counts of a non-empty sequence total
\* len(sequence) - 1.
C23_TransitionMatrixIsRowNormalisedCounts ==
  (norm # <<>> /\ pc # "transition_matrix_distance") =>
    /\ IsTransitionMatrixOf(tm1, gt_seq)
    /\ IsTransitionMatrixOf(tm2, pred)
    /\ gt_seq # <<>> => TotalCount(_transition_counts(gt_seq)) = Len(gt_seq) - 1
    /\ pred # <<>> => TotalCount(_transition_counts(pred)) = Len(pred) - 1

\* fixation, fixation, saccade: the fixation row is (1/2, 1/2), the saccade
\* row is all zero.
C23_Witness ==
  /\ pc = "norm"
  /\ gt_seq = <<"fixation", "fixation", "saccade">>
  /\ tm1[1][1] = <<1, 2>>
  /\ tm1[1][2] = <<1, 2>>
  /\ \A j \in LabelIds : tm1[2][j] = Rat(0)

\* The sum and the largest of the absolute values of all cells of a matrix.
EntrywiseSum(m) ==
  RatSumTo([i \in LabelIds |->
              RatSumTo([j \in LabelIds |-> RatAbs(m[i][j])], _NUM_EVENTS - 1)],
           _NUM_EVENTS - 1)
EntrywiseMax(m) ==
  RatMaxTo([i \in LabelIds |->
              RatMaxTo([j \in LabelIds |-> RatAbs(m[i][j])], _NUM_EVENTS - 1)],
           _NUM_EVENTS - 1)

\* C24: under 'l1' or 'manhattan' transition_matrix_distance returns the sum
\* over all cells of the absolute difference of the two matrices, and under
\* 'linf' or 'max' the largest absolute difference of any single cell.
C24_NormsAreEntrywise ==
  (norm # <<>> /\ pc = "returned") =>
    /\ lower(norm) \in {m_l1, m_manhattan} =>
         distance = Number(EntrywiseSum(minus(tm1, tm2)))
    /\ lower(norm) \in {m_linf, m_max} =>
         distance = Number(EntrywiseMax(minus(tm1, tm2)))

\* Two names of equal length that differ at most in the case of letters.
SameLetters(a, b) ==
  /\ Len(a) = Len(b)
  /\ \A i \in 1..Len(a) :
       \/ a[i] = b[i]
       \/ \E k \in 1..Len(UpperCase) : {a[i], b[i]} = {UpperCase[k], LowerCase[k]}

RecognisedNorms ==
  {m_fro, m_frobenius, m_euclidean, m_l2, m_l1, m_manhattan, m_linf,
   m_infinity, m_max, m_kl, m_kullback_leibler}

IsRecognised ==
  [name \in NormNames |-> \E n \in RecognisedNorms : SameLetters(name, n)]

\* C25: a norm name that, compared without regard to case, is none of the
\* recognised names makes transition_matrix_distance raise ValueError: no
\* distance is returned, under no other norm either; a recognised name
\* returns a distance.
C25_UnrecognisedNormRaises ==
  norm # <<>> =>
    /\ ~IsRecognised[norm] => distance = NoDistance
    /\ pc \in {"returned", "value_error"} =>
         IF IsRecognised[norm]
         THEN pc = "returned" /\ distance # NoDistance
         ELSE pc = "value_error"

C25_Witness ==
  /\ norm = c_cosine
  /\ pc = "value_error"
  /\ tm1 # tm2

\* The edit distance of the first i members of a and the first j of b.
RECURSIVE EditDistance(_, _, _, _)
EditDistance(a, b, i, j) ==
  IF i = 0 THEN j
  ELSE IF j = 0 THEN i
  ELSE min2(min2(EditDistance(a, b, i - 1, j) + 1,
                 EditDistance(a, b, i, j - 1) + 1),
            EditDistance(a, b, i - 1, j - 1) + (IF a[i] = b[j] THEN 0 ELSE 1))

\* C26: with normalisation levenshtein_distance returns the edit distance of
\* the two label sequences divided by the length of the longer one, a value
\* between 0 and 1; without it the edit distance itself; and for
\* fixation, saccade, fixation against fixation, fixation, fixation the
\* normalised distance is 1/3.
C26_LevenshteinIsNormalisedByLongerSequence ==
  (norm = <<>> /\ pc = "returned") =>
    LET d == EditDistance(gt_seq, pred, Len(gt_seq), Len(pred))
        longer == max2(Len(gt_seq), Len(pred))
    IN  /\ distance.kind = "number"
        /\ distance.value[2] > 0
        /\ IF do_normalization
           THEN /\ distance.value[1] * longer = d * distance.value[2]
                /\ RatLeq(Rat(0), distance.value)
                /\ RatLeq(distance.value, Rat(1))
           ELSE distance.value = Rat(d)
        /\ ( /\ do_normalization
             /\ gt_seq = <<"fixation", "saccade", "fixation">>
             /\ pred = <<"fixation", "fixation", "fixation">> )
           => distance.value = <<1, 3>>

C26_Witness ==
  /\ pc = "returned"
  /\ do_normalization
  /\ gt_seq = <<"fixation", "saccade", "fixation">>
  /\ pred = <<"fixation", "fixation", "fixation">>
  /\ distance = Number(<<1, 3>>)

\* The maximal runs of equal labels, each as its first and last position.
MaximalRuns(arr) ==
  { r \in (1..Len(arr)) \X (1..Len(arr)) :
      /\ r[1] <= r[2]
      /\ \A k \in r[1]..r[2] : arr[k] = arr[r[1]]
      /\ r[1] > 1 => arr[r[1] - 1] # arr[r[1]]
      /\ r[2] < Len(arr) => arr[r[2] + 1] # arr[r[2]] }

\* An event made of the samples of one run, with the label of the run.
IsEventOfRun(ev, r) ==
  /\ ev.label = labels[r[1]]
  /\ ev.timestamps = [k \in 1..(r[2] - r[1] + 1) |-> timestamps[r[1] + k - 1]]

\* C27: make_multiple given label and timestamp arrays of different lengths
\* raises ValueError before it makes any event; given equal lengths it returns
\* events that each belong to a maximal run of equal labels whose label is not
\* undefined, at most one per run and in the order of the runs.
C27_MakeMultipleValidatesAndMakesOneEventPerRun ==
  /\ (pc # "make_multiple" /\ Len(labels) # Len(timestamps)) =>
       pc = "value_error" /\ event_list = <<>> /\ idx = 0
  /\ pc = "value_error" => Len(labels) # Len(timestamps)
  /\ pc = "made" =>
       \E run_of \in [1..Len(event_list) -> MaximalRuns(labels)] :
         /\ \A k \in 1..Len(event_list) :
              /\ IsEventOfRun(event_list[k], run_of[k])
              /\ event_list[k].label # UNDEFINED
         /\ \A k \in 1..(Len(event_list) - 1) : run_of[k][2] < run_of[k + 1][1]

\* fixation, fixation, undefined, saccade gives a fixation and a saccade.
C27_Witness ==
  /\ pc = "made"
  /\ labels = <<"fixation", "fixation", UNDEFINED, "saccade">>
  /\ event_list = <<Event("fixation", <<1, 2>>), Event("saccade", <<4>>)>>

\* The attribute that a geometric feature is about, as a field of an event.
FieldOf(feat) ==
  CASE feat \in {f_Amplitude, f_Amplitude_Difference} -> "amplitude"
    [] feat \in {f_Azimuth, f_Azimuth_Difference} -> "azimuth"
    [] feat \in {f_Peak_Velocity, f_Peak_Velocity_Difference} -> "peak_velocity"

\* The values of the events that are not ignored and have the attribute, and
\* the differences of the pairs whose ground-truth event is not ignored and
\* whose two events have it.
ValuesOfEventsHaving(field) ==
  LET kept == SelectSeq(the_cell(events_df),
                        LAMBDA e : e.event_label \notin ignore_events
                                   /\ field \in DOMAIN e)
  IN  [i \in 1..Len(kept) |-> kept[i][field]]
DifferencesOfPairsHaving(field) ==
  LET kept == SelectSeq(the_cell(matches_df),
                        LAMBDA kv : kv[1].event_label \notin ignore_events
                                    /\ field \in DOMAIN kv[1]
                                    /\ field \in DOMAIN kv[2])
  IN  [i \in 1..Len(kept) |-> kept[i][1][field] - kept[i][2][field]]

\* C28: extracting a geometric feature (amplitude, azimuth, peak velocity)
\* raises no error, and the pooled list holds exactly the values of the
\* events that are not ignored and have the attribute; likewise the list of
\* differences holds exactly those of the matched pairs that are not ignored
\* and have it.
C28_EventsLackingTheAttributeAreLeftOut ==
  pc \notin {"extract_event_features", "calc_matched_events_feature"} =>
    /\ pc = "extracted"
    /\ events_df # NoFrame =>
         the_cell(extracted) = ValuesOfEventsHaving(FieldOf(feature))
    /\ matches_df # NoFrame =>
         the_cell(extracted) = DifferencesOfPairsHaving(FieldOf(feature))

\* What generic_matching called with the single ground-truth event g, the
\* same predictions and the same parameters returns: a dict with the entry
\* of g, or the empty dict.
MatchedAlone(g) ==
  record_match(EmptyDict, g,
               _choose_match(g, _find_matches(g, predictions,
                                              allow_cross_matching,
                                              min_overlap, min_iou,
                                              max_onset_latency,
                                              max_offset_latency),
                             reduction).value)

\* C29: the entry of a ground-truth event g in the mapping that
\* generic_matching returns is the entry that g gets when it is the only
\* ground-truth event: it depends neither on the other ground-truth events
\* nor on the matches already made.
C29_EntryOfAnEventIsIndependentOfTheOthers ==
  pc = "done" =>
    \A i \in 1..Len(ground_truth) :
      LET g == ground_truth[i]
      IN  /\ g \in DOMAIN matches <=> g \in DOMAIN MatchedAlone(g)
          /\ g \in DOMAIN matches => matches[g] = MatchedAlone(g)[g]

\* Two ground-truth events were both matched to the same single prediction.
C29_Witness ==
  /\ pc = "done"
  /\ Len(ground_truth) = 2
  /\ Len(predictions) = 1
  /\ DOMAIN matches = Range(ground_truth)
  /\ matches[ground_truth[1]] = <<predictions[1]>>
  /\ matches[ground_truth[2]] = <<predictions[1]>>

\* The rows of a trial in the frame of the caller, and the trials of the
\* frame without repetition.
RowsOfTrial(tr) == SelectSeq([k \in 1..Len(dataset) |-> k],
                             LAMBDA k : dataset[k].trial = tr)
TrialsOfDataset == { dataset[k].trial : k \in 1..Len(dataset) }

\* The detections made so far, each as iteration, trial and result: those of
\* the iterations that are stored and those of the iteration under way.
Detections ==
  { [iter |-> j, trial |-> tr, res |-> multi_detect.at[j].at[tr]] :
      j \in DOMAIN multi_detect.at, tr \in TrialsOfDataset }
  \cup (IF pc = "trials"
        THEN { [iter |-> iteration + 1, trial |-> tr, res |-> iter_results.at[tr]] :
                 tr \in DOMAIN iter_results.at }
        ELSE {})

\* Every sample that a detection labelled saccade is NaN in the working copy
\* and was NaN in what every later detection of its trial was given.
SaccadesAreNullified ==
  \A d \in Detections :
    \A n \in 1..Len(d.res.gaze) :
      d.res.gaze[n].event = "saccade" =>
        /\ data_copy[RowsOfTrial(d.trial)[n]].x = NaN
        /\ data_copy[RowsOfTrial(d.trial)[n]].y = NaN
        /\ \A later \in Detections :
             (later.trial = d.trial /\ later.iter > d.iter) =>
               later.res.gaze[n].x = NaN /\ later.res.gaze[n].y = NaN

\* The table has the columns 1..num_iterations, each with one entry per trial.
TableIsComplete ==
  /\ multi_detect.keys = [j \in 1..num_iterations |-> j]
  /\ \A j \in 1..num_iterations :
       /\ Range(multi_detect.at[j].keys) = TrialsOfDataset
       /\ Len(multi_detect.at[j].keys) = Cardinality(TrialsOfDataset)
       /\ \A tr \in TrialsOfDataset :
            Len(multi_detect.at[j].at[tr].gaze) = Len(RowsOfTrial(tr))

\* A step restores no nullified sample, alters no stored iteration and leaves
\* the frame of the caller as it is.
NothingIsRestoredOrAltered ==
  /\ \A k \in 1..Len(data_copy) :
       /\ data_copy[k].x = NaN => data_copy'[k].x = NaN
       /\ data_copy[k].y = NaN => data_copy'[k].y = NaN
  /\ \A j \in DOMAIN multi_detect.at :
       j \in DOMAIN multi_detect'.at /\ multi_detect'.at[j] = multi_detect.at[j]
  /\ dataset' = dataset

\* C30: in detect_multiple_times every sample that was labelled saccade when
\* its trial was detected has x and y set to NaN in the working copy, and
\* every later detection of the trial is given NaN there; no nullified sample
\* is restored; the result stored for an iteration is not altered later; the
\* table returned has one column per iteration 1..num_iterations with one
\* entry per trial; and the frame of the caller is never modified.
C30_SaccadesStayNullifiedAcrossIterations ==
  /\ [](pc \in {"iterations", "trials", "table"} => SaccadesAreNullified)
  /\ [](pc = "table" => TableIsComplete)
  /\ [](\A k \in 1..Len(dataset) : dataset[k] = Sample(dataset[k].trial, k))
  /\ [][NothingIsRestoredOrAltered]_vars

\* Two trials, two iterations: the first sample of trial 1 was labelled
\* saccade in iteration 1 and the detector was given NaN for it in iteration 2.
C30_Witness ==
  /\ pc = "table"
  /\ num_iterations = 2
  /\ TrialsOfDataset = Trials
  /\ multi_detect.at[1].at[1].gaze[1].event = "saccade"
  /\ multi_detect.at[1].at[1].gaze[1].x # NaN
  /\ multi_detect.at[2].at[1].gaze[1].x = NaN
  /\ dataset[RowsOfTrial(1)[1]].x # NaN
====
